---- MODULE Spec2Model ----
(***************************************************************************)
(* Trade-simulation core of day-trading-debunk: Position, Portfolio,       *)
(* BacktestEngine.run and SimpleBacktest.run; the risk managers            *)
(* (SimpleRiskManager, RiskManager with StopLoss, TakeProfit and           *)
(* TrailingStop), the position sizers, the performance metrics and         *)
(* BacktestEngine.compare_strategies.                                      *)
(*                                                                         *)
(* Python floats are modelled as exact rationals <<n, d>> (d > 0, lowest   *)
(* terms); timestamps are the 1-based positions of the bars in the data    *)
(* index (strictly increasing, no duplicates); None is 0.                  *)
(***************************************************************************)
EXTENDS Integers, Sequences, FiniteSets, TLC

VARIABLES
    engine,       \* the class in use: "BacktestEngine", "SimpleBacktest", or (direct API use) "Portfolio", a risk manager, a sizer, a metrics function
    data,         \* self.data['Close'] as a sequence of rationals (for a RiskManager: the first price since the last on_enter_position that reached the activation threshold)
    signals,      \* strategy.generate_signals(self.data)['signal']: timestamp -> signal
    config,       \* [initial_capital, commission, slippage, position_size], and position_sizer when run is given a sizer
    i,            \* loop index of run (0-based, as enumerate gives it)
    pc,           \* "loop" while iterating the bars, "done" after run returned
    portfolio,    \* the Portfolio object (BacktestEngine.run and direct API use)
    sb,           \* the locals of SimpleBacktest.run: capital, position, equity_curve, trades
    call,         \* the last call made and its arguments
    pre,          \* portfolio (or sb) as it was before the last step
    results,      \* what run returned (self.results where one engine runs many strategies)
    rm,           \* the SimpleRiskManager / RiskManager object (direct API use)
    sizer,        \* the position sizer object (direct API use)
    ret           \* what the last direct call returned or raised

vars == <<engine, data, signals, config, i, pc, portfolio, sb, call, pre, results,
          rm, sizer, ret>>

\* ----------------------------------------------------------------- bounds
MaxBars == 3
MaxCalls == 4

\* ------------------------------------------------------- float arithmetic
Abs(x) == IF x < 0 THEN -x ELSE x

RECURSIVE GCD(_, _)
GCD(a, b) == IF b = 0 THEN a ELSE GCD(b, a % b)

Norm(n, d) ==
    LET g == GCD(Abs(n), Abs(d))
        s == IF d < 0 THEN -1 ELSE 1
    IN  <<(s * n) \div g, (s * d) \div g>>

Rat(n) == <<n, 1>>
Zero == <<0, 1>>
One == <<1, 1>>

\* Sums and comparisons go through the least common denominator, which keeps
\* the intermediate products small.
RAdd(a, b) ==
    LET g == GCD(a[2], b[2])
    IN  Norm(a[1] * (b[2] \div g) + b[1] * (a[2] \div g), a[2] * (b[2] \div g))
RSub(a, b) ==
    LET g == GCD(a[2], b[2])
    IN  Norm(a[1] * (b[2] \div g) - b[1] * (a[2] \div g), a[2] * (b[2] \div g))
RMul(a, b) == Norm(a[1] * b[1], a[2] * b[2])
RDiv(a, b) == Norm(a[1] * b[2], a[2] * b[1])
RNeg(a) == <<-a[1], a[2]>>
RAbs(a) == <<Abs(a[1]), a[2]>>
RLt(a, b) ==
    LET g == GCD(a[2], b[2])
    IN  a[1] * (b[2] \div g) < b[1] * (a[2] \div g)
RLe(a, b) ==
    LET g == GCD(a[2], b[2])
    IN  a[1] * (b[2] \div g) <= b[1] * (a[2] \div g)
RMax(a, b) == IF RLt(a, b) THEN b ELSE a
RMin(a, b) == IF RLt(b, a) THEN b ELSE a
RSign(a) == IF a[1] > 0 THEN 1 ELSE IF a[1] < 0 THEN -1 ELSE 0

\* int(x): truncation toward zero
RInt(a) == IF a[1] >= 0 THEN a[1] \div a[2] ELSE -((-a[1]) \div a[2])

\* np.sign on an integer signal
Sign(x) == IF x > 0 THEN 1 ELSE IF x < 0 THEN -1 ELSE 0

None == 0

RECURSIVE RSum(_)
RSum(xs) == IF xs = <<>> THEN Zero ELSE RAdd(xs[1], RSum(Tail(xs)))

\* ------------------------------------------------ floats that are not finite
\* float('inf'): above every price in every comparison.
Inf == <<1, 0>>
NaN == <<0, 0>>

IsNaN(x) == x = NaN
\* Neither NaN nor an infinity.
IsFinite(x) == x[2] # 0

\* IEEE 754 arithmetic as numpy does it on float64 arrays (no exception:
\* x / 0 is an infinity, 0 / 0, inf - inf and 0 * inf are NaN). The sign of a
\* zero is not kept: the series below divide by a zero only when the
\* numerator is a zero too.
FAdd(a, b) ==
    IF IsNaN(a) \/ IsNaN(b) THEN NaN
    ELSE IF IsFinite(a) /\ IsFinite(b) THEN RAdd(a, b)
    ELSE IF ~IsFinite(a) /\ ~IsFinite(b) THEN (IF a = b THEN a ELSE NaN)
    ELSE IF ~IsFinite(a) THEN a
    ELSE b
FSub(a, b) == FAdd(a, <<-b[1], b[2]>>)
FMul(a, b) ==
    IF IsNaN(a) \/ IsNaN(b) THEN NaN
    ELSE IF IsFinite(a) /\ IsFinite(b) THEN RMul(a, b)
    ELSE IF a[1] = 0 \/ b[1] = 0 THEN NaN
    ELSE <<Sign(a[1]) * Sign(b[1]), 0>>
FDiv(a, b) ==
    IF IsNaN(a) \/ IsNaN(b) THEN NaN
    ELSE IF ~IsFinite(a) /\ ~IsFinite(b) THEN NaN
    ELSE IF ~IsFinite(a) THEN <<Sign(a[1]) * (IF b[1] < 0 THEN -1 ELSE 1), 0>>
    ELSE IF ~IsFinite(b) THEN Zero
    ELSE IF b[1] = 0 THEN (IF a[1] = 0 THEN NaN ELSE <<Sign(a[1]), 0>>)
    ELSE RDiv(a, b)
\* a < b; False when either is NaN.
FLt(a, b) ==
    IF IsNaN(a) \/ IsNaN(b) THEN FALSE
    ELSE IF IsFinite(a) /\ IsFinite(b) THEN RLt(a, b)
    ELSE IF ~IsFinite(a) THEN a = <<-1, 0>> /\ b # a
    ELSE b = Inf

\* ------------------------------------------------------------ pandas Series
\* Series.dropna()
dropna(xs) ==
    LET notna(x) == ~IsNaN(x)
    IN  SelectSeq(xs, notna)

\* Series.pct_change().dropna(): the first entry of pct_change is NaN.
pct_change(xs) ==
    [k \in 1..(Len(xs) - 1) |-> FSub(FDiv(xs[k + 1], xs[k]), One)]

RECURSIVE FProd(_)
FProd(xs) == IF xs = <<>> THEN One ELSE FMul(FProd(SubSeq(xs, 1, Len(xs) - 1)), xs[Len(xs)])

\* Series.cumprod() on a series without NaN entries.
cumprod(xs) == [k \in 1..Len(xs) |-> FProd(SubSeq(xs, 1, k))]

\* Series.max() / Series.min(): NaN entries are skipped; NaN when none is left.
Series_max(xs) ==
    LET vals == {xs[k] : k \in {j \in 1..Len(xs) : ~IsNaN(xs[j])}}
    IN  IF vals = {} THEN NaN ELSE CHOOSE v \in vals : \A w \in vals : ~FLt(v, w)
Series_min(xs) ==
    LET vals == {xs[k] : k \in {j \in 1..Len(xs) : ~IsNaN(xs[j])}}
    IN  IF vals = {} THEN NaN ELSE CHOOSE v \in vals : \A w \in vals : ~FLt(w, v)

\* Series.cummax(): the largest entry so far, NaN where the entry is NaN.
cummax(xs) ==
    [k \in 1..Len(xs) |-> IF IsNaN(xs[k]) THEN NaN ELSE Series_max(SubSeq(xs, 1, k))]

\* Series.expanding().max(): the largest entry so far that is not NaN.
expanding_max(xs) == [k \in 1..Len(xs) |-> Series_max(SubSeq(xs, 1, k))]

\* ----------------------------------------------------------------- Position
PositionInit == [units |-> Zero, entry_price |-> Zero, entry_time |-> None]

enter_long(self, units, price, time) ==
    [units |-> units, entry_price |-> price, entry_time |-> time]

enter_short(self, units, price, time) ==
    [units |-> RNeg(units), entry_price |-> price, entry_time |-> time]

exit_position(self) ==
    [self EXCEPT !.units = Zero, !.entry_price = Zero]

get_pnl(self, current_price) ==
    IF RSign(self.units) = 0 THEN Zero
    ELSE IF RSign(self.units) > 0
         THEN RMul(self.units, RSub(current_price, self.entry_price))
         ELSE RMul(RNeg(self.units), RSub(self.entry_price, current_price))

is_long(self) == RSign(self.units) > 0
is_short(self) == RSign(self.units) < 0
is_flat(self) == RSign(self.units) = 0

\* ---------------------------------------------------------------- Portfolio
PortfolioInit(initial_capital) ==
    [initial_capital |-> initial_capital,
     current_capital |-> initial_capital,
     position |-> PositionInit,
     equity_curve |-> <<>>,       \* dict time -> equity, in insertion order
     trades |-> <<>>,
     current_price |-> Zero,
     current_time |-> None]

\* self.equity_curve[time] = total_equity on an insertion-ordered dict:
\* a sequence of <<time, equity>>; an existing key keeps its place.
\* A dict that keeps one entry: a later key replaces the last entry.
DictSet_single_entry(d, key, val) ==
    IF Len(d) > 0
    THEN [d EXCEPT ![Len(d)] = <<key, val>>]
    ELSE Append(d, <<key, val>>)

DictSet(d, key, val) ==
    IF \E k \in 1..Len(d) : d[k][1] = key
    THEN [k \in 1..Len(d) |-> IF d[k][1] = key THEN <<key, val>> ELSE d[k]]
    ELSE Append(d, <<key, val>>)

\* update_price that books the unrealized P&L into current_capital.
update_price_realizes(self, price, time) ==
    LET unrealized_pnl == get_pnl(self.position, price)
        total_equity == RAdd(self.current_capital, unrealized_pnl)
    IN  [self EXCEPT !.current_price = price,
                     !.current_time = time,
                     !.current_capital = total_equity,
                     !.equity_curve = DictSet(self.equity_curve, time, total_equity)]

update_price(self, price, time) ==
    LET unrealized_pnl == get_pnl(self.position, price)
        total_equity == RAdd(self.current_capital, unrealized_pnl)
    IN  [self EXCEPT !.current_price = price,
                     !.current_time = time,
                     !.equity_curve = DictSet(self.equity_curve, time, total_equity)]

\* _enter_long that pays for the units out of current_capital.
_enter_long_debits(self, price, time, size) ==
    LET units == RDiv(RMul(self.current_capital, size), price)
    IN  [self EXCEPT
            !.current_capital = RSub(self.current_capital, RMul(units, price)),
            !.position = enter_long(self.position, units, price, time),
            !.trades = Append(self.trades,
                [type |-> "ENTER LONG", time |-> time, price |-> price,
                 units |-> units, capital |-> self.current_capital])]

_enter_long(self, price, time, size) ==
    LET units == RDiv(RMul(self.current_capital, size), price)
    IN  [self EXCEPT
            !.position = enter_long(self.position, units, price, time),
            !.trades = Append(self.trades,
                [type |-> "ENTER LONG", time |-> time, price |-> price,
                 units |-> units, capital |-> self.current_capital])]

_enter_short(self, price, time, size) ==
    LET units == RDiv(RMul(self.current_capital, size), price)
    IN  [self EXCEPT
            !.position = enter_short(self.position, units, price, time),
            !.trades = Append(self.trades,
                [type |-> "ENTER SHORT", time |-> time, price |-> price,
                 units |-> units, capital |-> self.current_capital])]

\* _close_position without the append to self.trades
_close_position_unlogged(self, price, time) ==
    IF is_flat(self.position) THEN self
    ELSE [self EXCEPT
            !.current_capital = RAdd(self.current_capital, get_pnl(self.position, price)),
            !.position = exit_position(self.position)]

_close_position(self, price, time) ==
    IF is_flat(self.position) THEN self
    ELSE
        LET pnl == get_pnl(self.position, price)
            capital == RAdd(self.current_capital, pnl)
            position_type == IF is_long(self.position) THEN "EXIT LONG" ELSE "EXIT SHORT"
        IN  [self EXCEPT
                !.current_capital = capital,
                !.trades = Append(self.trades,
                    [type |-> position_type, time |-> time, price |-> price,
                     units |-> RAbs(self.position.units), pnl |-> pnl,
                     capital |-> capital]),
                !.position = exit_position(self.position)]

\* execute_signal that enters on every non-zero signal, flat or not.
execute_signal_pyramids(self, signal, price, time, size) ==
    LET closed ==
            IF signal = 1 /\ is_short(self.position) THEN _close_position(self, price, time)
            ELSE IF signal = -1 /\ is_long(self.position) THEN _close_position(self, price, time)
            ELSE self
    IN  IF signal = 1 THEN _enter_long(closed, price, time, size)
        ELSE IF signal = -1 THEN _enter_short(closed, price, time, size)
        ELSE closed

execute_signal(self, signal, price, time, size) ==
    LET closed ==
            IF signal = 1 /\ is_short(self.position) THEN _close_position(self, price, time)
            ELSE IF signal = -1 /\ is_long(self.position) THEN _close_position(self, price, time)
            ELSE self
    IN  IF signal = 1 /\ is_flat(closed.position) THEN _enter_long(closed, price, time, size)
        ELSE IF signal = -1 /\ is_flat(closed.position) THEN _enter_short(closed, price, time, size)
        ELSE closed

\* ------------------------------------------------------------------ metrics
\* total_return = (equity_curve.iloc[-1] / equity_curve.iloc[0]) - 1
total_return(equity) == RSub(RDiv(equity[Len(equity)], equity[1]), One)

\* trades[trades['pnl'] > 0]: a non-empty DataFrame built from ENTER records
\* alone has no 'pnl' column, and the lookup raises KeyError.
HasPnlColumn(trades) == \E k \in 1..Len(trades) : "pnl" \in DOMAIN trades[k]

\* The 'pnl' column of the trades DataFrame: NaN in the rows of records
\* without the key.
PnlColumn(trades) ==
    [k \in 1..Len(trades) |-> IF "pnl" \in DOMAIN trades[k] THEN trades[k].pnl ELSE NaN]

\* Max drawdown of calculate_metrics (metrics.py 61-64).
metrics_max_drawdown(equity) ==
    LET returns == dropna(pct_change(equity))
        cumulative_returns == cumprod([k \in 1..Len(returns) |-> FAdd(One, returns[k])])
        peaks == cummax(cumulative_returns)
        drawdown == [k \in 1..Len(returns) |->
                        FSub(One, FDiv(cumulative_returns[k], peaks[k]))]
    IN  Series_max(drawdown)

calculate_metrics(equity_curve, trades) ==
    LET equity == [k \in 1..Len(equity_curve) |-> equity_curve[k][2]]
        IsWinning(pnl) == FLt(Zero, pnl)
        winning_trades == SelectSeq(PnlColumn(trades), IsWinning)
    IN  IF Len(trades) > 0 /\ ~HasPnlColumn(trades)
        THEN [raised |-> "KeyError"]
        ELSE [raised |-> "", total_return |-> total_return(equity),
              max_drawdown |-> metrics_max_drawdown(equity),
              win_rate |-> IF Len(trades) > 0
                           THEN RDiv(Rat(Len(winning_trades)), Rat(Len(trades)))
                           ELSE Zero,
              avg_win |-> IF Len(winning_trades) > 0
                          THEN RDiv(RSum(winning_trades), Rat(Len(winning_trades)))
                          ELSE Zero,
              number_of_trades |-> Len(trades)]

\* ----------------------------------------------------------- BacktestEngine
\* enumerate(self.data.index): the timestamp of bar k (0-based) is its place in
\* the index.
Timestamp(k) == k + 1

NoCall == [op |-> "", signal |-> 0, price |-> Zero, time |-> None]

\* The loop body without the "if i > 0" guards: the first bar trades too.
BacktestEngine_bar_first_bar_trades(self, pf, k) ==
    LET timestamp == Timestamp(k)
        current_price == self.data[timestamp]
        signal == self.signals[timestamp]
        adjusted_price ==
            IF signal # 0
            THEN RMul(current_price, RAdd(One, RMul(self.slippage, Rat(Sign(signal)))))
            ELSE current_price
        marked == update_price(pf, adjusted_price, timestamp)
        effective_commission ==
            IF signal > 0 THEN RSub(One, self.commission) ELSE RAdd(One, self.commission)
        exec_price == RMul(adjusted_price, effective_commission)
    IN  IF timestamp \notin DOMAIN self.signals
        THEN [raised |-> "KeyError", portfolio |-> pf, call |-> NoCall]
        ELSE IF signal # 0
        THEN [raised |-> "",
              portfolio |-> execute_signal(marked, signal, exec_price, timestamp, One),
              call |-> [op |-> "execute_signal", signal |-> signal,
                        price |-> exec_price, time |-> timestamp]]
        ELSE [raised |-> "",
              portfolio |-> marked,
              call |-> [op |-> "update_price", signal |-> 0,
                        price |-> adjusted_price, time |-> timestamp]]

\* One iteration of the for loop of BacktestEngine.run, on bar k (0-based).
\* signals.loc[timestamp, 'signal'] raises KeyError for a timestamp the
\* signals do not hold; the first bar does not look its signal up.
BacktestEngine_bar(self, pf, k) ==
    LET timestamp == Timestamp(k)
        current_price == self.data[timestamp]
        signal == self.signals[timestamp]
        adjusted_price ==
            IF k > 0 /\ signal # 0
            THEN RMul(current_price, RAdd(One, RMul(self.slippage, Rat(Sign(signal)))))
            ELSE current_price
        marked == update_price(pf, adjusted_price, timestamp)
        effective_commission ==
            IF signal > 0 THEN RSub(One, self.commission) ELSE RAdd(One, self.commission)
        exec_price == RMul(adjusted_price, effective_commission)
    IN  IF k > 0 /\ timestamp \notin DOMAIN self.signals
        THEN [raised |-> "KeyError", portfolio |-> pf, call |-> NoCall]
        ELSE IF k > 0 /\ signal # 0
        THEN [raised |-> "",
              portfolio |-> execute_signal(marked, signal, exec_price, timestamp, One),
              call |-> [op |-> "execute_signal", signal |-> signal,
                        price |-> exec_price, time |-> timestamp]]
        ELSE [raised |-> "",
              portfolio |-> marked,
              call |-> [op |-> "update_price", signal |-> 0,
                        price |-> adjusted_price, time |-> timestamp]]

\* The whole loop from bar k on, then the metrics: what run returns.
RECURSIVE BacktestEngine_run(_, _, _)
BacktestEngine_run(self, pf, k) ==
    IF k < Len(self.data)
    THEN LET step == BacktestEngine_bar(self, pf, k)
         IN  IF step.raised # ""
             THEN [raised |-> step.raised]        \* the exception leaves run
             ELSE BacktestEngine_run(self, step.portfolio, k + 1)
    ELSE LET metrics == calculate_metrics(pf.equity_curve, pf.trades)
         IN  IF metrics.raised # ""
             THEN [raised |-> metrics.raised]     \* the exception leaves run
             ELSE [raised |-> "",
                   equity_curve |-> pf.equity_curve,
                   trades |-> pf.trades,
                   metrics |-> metrics]

\* ------------------------------- position sizing (simple_position_sizing.py)
FixedPositionSizerInit(percent) ==
    [percent |-> RMax(<<1, 100>>, RMin(percent, One))]

FixedPositionSizer_calculate_size(self, capital, price, signal) ==
    IF signal = 0 \/ RLe(price, Zero) THEN Zero
    ELSE LET trade_value == RMul(capital, self.percent)
         IN  RDiv(trade_value, price)

KellyPositionSizerInit(win_rate, win_loss_ratio, kelly_fraction) ==
    [win_rate |-> RMax(<<1, 100>>, RMin(win_rate, <<99, 100>>)),
     win_loss_ratio |-> RMax(<<1, 10>>, win_loss_ratio),
     kelly_fraction |-> RMax(<<1, 100>>, RMin(kelly_fraction, One))]

\* KellyPositionSizer.calculate_size without the ceiling on the allocation.
KellyPositionSizer_calculate_size_uncapped(self, capital, price, signal) ==
    IF signal = 0 \/ RLe(price, Zero) THEN Zero
    ELSE LET kelly_pct == RMax(Zero,
                 RSub(self.win_rate, RDiv(RSub(One, self.win_rate), self.win_loss_ratio)))
             allocation_pct == RMul(kelly_pct, self.kelly_fraction)
             trade_value == RMul(capital, allocation_pct)
         IN  RDiv(trade_value, price)

KellyPositionSizer_calculate_size(self, capital, price, signal) ==
    IF signal = 0 \/ RLe(price, Zero) THEN Zero
    ELSE LET kelly_pct == RMax(Zero,
                 RSub(self.win_rate, RDiv(RSub(One, self.win_rate), self.win_loss_ratio)))
             allocation_pct == RMin(RMul(kelly_pct, self.kelly_fraction), <<1, 2>>)
             trade_value == RMul(capital, allocation_pct)
         IN  RDiv(trade_value, price)

VolatilityPositionSizerInit(risk_per_trade, volatility_lookback) ==
    [risk_per_trade |-> RMax(<<1, 200>>, RMin(risk_per_trade, <<1, 10>>)),
     volatility_lookback |-> IF volatility_lookback < 5 THEN 5 ELSE volatility_lookback]

\* np.diff(price_history) / price_history[:-1]
Returns(price_history) ==
    [k \in 1..(Len(price_history) - 1) |->
        RDiv(RSub(price_history[k + 1], price_history[k]), price_history[k])]

\* xs[-n:]
LastN(xs, n) == IF Len(xs) <= n THEN xs ELSE SubSeq(xs, Len(xs) - n + 1, Len(xs))

\* The square root of a rational that is a perfect square.
RSqrt(a) ==
    LET ISqrt(n) == CHOOSE k \in 0..n : k * k = n
    IN  <<ISqrt(a[1]), ISqrt(a[2])>>

\* np.std: the population standard deviation.
Std(xs) ==
    LET n == Rat(Len(xs))
        mean == RDiv(RSum(xs), n)
        squares == [k \in 1..Len(xs) |-> RMul(RSub(xs[k], mean), RSub(xs[k], mean))]
    IN  RSqrt(RDiv(RSum(squares), n))

\* price_history None is the empty sequence: both take the default volatility.
VolatilityPositionSizer_calculate_size(self, capital, price, signal, price_history) ==
    IF signal = 0 \/ RLe(price, Zero) THEN Zero
    ELSE LET volatility ==
                 IF Len(price_history) >= self.volatility_lookback
                 THEN RMax(<<1, 100>>,
                           Std(LastN(Returns(price_history), self.volatility_lookback)))
                 ELSE <<1, 50>>
             risk_amount == RMul(capital, self.risk_per_trade)
             position_value == RDiv(risk_amount, volatility)
         IN  RDiv(position_value, price)

\* ----------------------------------------------------------- SimpleBacktest
\* Maximum drawdown of SimpleBacktest._calculate_metrics (170-174).
simple_max_drawdown(equity_curve) ==
    LET returns == dropna(pct_change(equity_curve))
        cumulative == cumprod([k \in 1..Len(returns) |-> FAdd(One, returns[k])])
        rolling_max == expanding_max(cumulative)
        drawdown == [k \in 1..Len(returns) |->
                        FDiv(FSub(cumulative[k], rolling_max[k]), rolling_max[k])]
    IN  Series_min(drawdown)

_calculate_metrics(equity_curve, trades) ==
    [total_return |-> total_return(equity_curve),
     max_drawdown |-> simple_max_drawdown(equity_curve),
     num_trades |-> Cardinality({k \in 1..Len(trades) : trades[k].type = "OPEN"}),
     final_value |-> equity_curve[Len(equity_curve)]]

_calculate_shares(self, trade_value, price, signal) ==
    LET effective_price ==
            RMul(price, RAdd(One, RMul(self.slippage, Rat(Sign(signal)))))
    IN  RInt(RMul(RDiv(trade_value, effective_price), Rat(Sign(signal))))

\* shares is the float value of the share count (an int without a sizer).
_execute_trade(self, shares, price, trade_type) ==
    LET gross_value == RMul(RAbs(shares), price)
        slippage_cost == RMul(gross_value, self.slippage)
        commission_cost == RMul(gross_value, self.commission)
        net_cost == RAdd(RAdd(gross_value, slippage_cost), commission_cost)
        net_proceeds == RSub(RSub(gross_value, slippage_cost), commission_cost)
    IN  IF RLt(Zero, shares)
        THEN (IF trade_type = "OPEN" THEN net_cost ELSE RNeg(net_cost))
        ELSE (IF trade_type = "OPEN" THEN RNeg(net_proceeds) ELSE net_proceeds)

\* One iteration of the for loop of SimpleBacktest.run, on bar k (0-based).
\* Without a position_sizer the share counts are ints; with one they are the
\* floats calculate_size returns (called without a price history), and the
\* position is a float.
SimpleBacktest_bar(self, s, k) ==
    LET timestamp == Timestamp(k)
        price == self.data[timestamp]
        signal == IF timestamp \in DOMAIN self.signals THEN self.signals[timestamp] ELSE 0
        position_sizer == self.position_sizer
        sized == position_sizer.class # "None"
        position == IF sized THEN s.position ELSE Rat(s.position)
        portfolio_value == RAdd(s.capital, RMul(position, price))
        marked == [s EXCEPT !.equity_curve = Append(s.equity_curve, portfolio_value)]
        opposite == (signal > 0 /\ RLt(position, Zero)) \/ (signal < 0 /\ RLt(Zero, position))
        capital1 == RAdd(s.capital, _execute_trade(self, position, price, "CLOSE"))
        closed ==
            IF opposite
            THEN [marked EXCEPT
                    !.capital = capital1,
                    !.trades = Append(marked.trades,
                        [timestamp |-> timestamp, type |-> "CLOSE", price |-> price,
                         shares |-> IF sized THEN RNeg(s.position) ELSE -s.position,
                         capital |-> capital1]),
                    !.position = IF sized THEN Zero ELSE 0]
            ELSE marked
        flat == IF sized THEN RSign(closed.position) = 0 ELSE closed.position = 0
        trade_value == RMul(closed.capital, self.position_size)
        shares ==
            IF position_sizer.class = "FixedPositionSizer"
            THEN FixedPositionSizer_calculate_size(
                    position_sizer.self, closed.capital, price, signal)
            ELSE IF position_sizer.class = "KellyPositionSizer"
            THEN KellyPositionSizer_calculate_size(
                    position_sizer.self, closed.capital, price, signal)
            ELSE IF position_sizer.class = "VolatilityPositionSizer"
            THEN VolatilityPositionSizer_calculate_size(
                    position_sizer.self, closed.capital, price, signal, <<>>)
            ELSE _calculate_shares(self, trade_value, price, signal)
        quantity == IF sized THEN shares ELSE Rat(shares)
        cost == _execute_trade(self, quantity, price, "OPEN")
        capital2 == RSub(closed.capital, cost)
    IN  IF signal # 0 /\ k > 0
        THEN IF flat /\ RSign(quantity) # 0
             THEN [closed EXCEPT
                    !.capital = capital2,
                    !.position = IF sized THEN RAdd(closed.position, shares)
                                 ELSE closed.position + shares,
                    !.trades = Append(closed.trades,
                        [timestamp |-> timestamp, type |-> "OPEN", price |-> price,
                         shares |-> shares, capital |-> capital2])]
             ELSE closed
        ELSE marked

\* After the loop: close the final position, compute the metrics, return.
SimpleBacktest_return(self, s) ==
    LET final_price == self.data[Len(self.data)]
        position == IF self.position_sizer.class # "None" THEN s.position
                    ELSE Rat(s.position)
        capital ==
            IF RSign(position) # 0
            THEN RAdd(s.capital, _execute_trade(self, position, final_price, "CLOSE"))
            ELSE s.capital
    IN  [raised |-> "",
         equity_curve |-> s.equity_curve,
         trades |-> s.trades,
         metrics |-> _calculate_metrics(s.equity_curve, s.trades),
         final_capital |-> capital]

RECURSIVE SimpleBacktest_run(_, _, _)
SimpleBacktest_run(self, s, k) ==
    IF k < Len(self.data)
    THEN SimpleBacktest_run(self, SimpleBacktest_bar(self, s, k), k + 1)
    ELSE SimpleBacktest_return(self, s)

\* ------------------------------------------------------------------ inputs
Prices == {Rat(1), Rat(2), Rat(3)}
Signals == {-1, 0, 1}
Rates == {Zero, <<1, 10>>}
InitialCapitals == {Rat(10)}

Series(S) == UNION {[1..n -> S] : n \in 1..MaxBars}

SimpleInit(initial_capital) ==
    [capital |-> initial_capital, position |-> 0, equity_curve |-> <<>>, trades |-> <<>>]

NoResults == [raised |-> "", pending |-> TRUE]

\* The object run is called on, as the operators above read it.
\* position_sizer is the argument of SimpleBacktest.run: the class and the
\* object of the sizer handed over, or None.
Self == [data |-> data, signals |-> signals,
         initial_capital |-> config.initial_capital,
         commission |-> config.commission, slippage |-> config.slippage,
         position_size |-> config.position_size,
         position_sizer |-> IF "position_sizer" \in DOMAIN config
                            THEN [class |-> config.position_sizer, self |-> sizer]
                            ELSE [class |-> "None"]]

\* ------------------------------------------------- specification of the runs
Init ==
    /\ engine \in {"BacktestEngine", "SimpleBacktest"}
    /\ data \in Series(Prices)
    /\ signals \in [1..Len(data) -> Signals]
    /\ config \in [initial_capital : InitialCapitals, commission : Rates,
                   slippage : Rates, position_size : {One}]
    /\ i = 0
    /\ pc = "loop"
    /\ portfolio = PortfolioInit(config.initial_capital)
    /\ sb = SimpleInit(config.initial_capital)
    /\ call = NoCall
    /\ pre = IF engine = "BacktestEngine" THEN portfolio ELSE sb
    /\ results = NoResults
    /\ rm = None
    /\ sizer = None
    /\ ret = None

BacktestEngine_run_loop ==
    /\ engine = "BacktestEngine"
    /\ pc = "loop"
    /\ i < Len(data)
    /\ LET step == BacktestEngine_bar(Self, portfolio, i)
       IN  IF step.raised # ""
           THEN /\ results' = [raised |-> step.raised]
                /\ pc' = "done"
                /\ UNCHANGED <<portfolio, call, i>>
           ELSE /\ portfolio' = step.portfolio
                /\ call' = step.call
                /\ i' = i + 1
                /\ UNCHANGED <<pc, results>>
    /\ pre' = portfolio
    /\ UNCHANGED <<rm, sizer, ret, engine, data, signals, config, sb>>

BacktestEngine_run_return ==
    /\ engine = "BacktestEngine"
    /\ pc = "loop"
    /\ i = Len(data)
    /\ results' = BacktestEngine_run(Self, portfolio, i)
    /\ pc' = "done"
    /\ pre' = portfolio
    /\ UNCHANGED <<rm, sizer, ret, engine, data, signals, config, i, portfolio, sb, call>>

SimpleBacktest_run_loop ==
    /\ engine = "SimpleBacktest"
    /\ pc = "loop"
    /\ i < Len(data)
    /\ sb' = SimpleBacktest_bar(Self, sb, i)
    /\ pre' = sb
    /\ i' = i + 1
    /\ UNCHANGED <<rm, sizer, ret, engine, data, signals, config, pc, portfolio, call, results>>

SimpleBacktest_run_return ==
    /\ engine = "SimpleBacktest"
    /\ pc = "loop"
    /\ i = Len(data)
    /\ results' = SimpleBacktest_run(Self, sb, i)
    /\ pc' = "done"
    /\ pre' = sb
    /\ UNCHANGED <<rm, sizer, ret, engine, data, signals, config, i, portfolio, sb, call>>

Next ==
    \/ BacktestEngine_run_loop
    \/ BacktestEngine_run_return
    \/ SimpleBacktest_run_loop
    \/ SimpleBacktest_run_return

Spec == Init /\ [][Next]_vars

\* ------------------------------- specification of direct use of a Portfolio
InitPortfolio ==
    /\ engine = "Portfolio"
    /\ data = <<>>
    /\ signals = <<>>
    /\ config \in [initial_capital : InitialCapitals, commission : {Zero},
                   slippage : {Zero}, position_size : {One}]
    /\ i = 0
    /\ pc = "loop"
    /\ portfolio = PortfolioInit(config.initial_capital)
    /\ sb = SimpleInit(config.initial_capital)
    /\ call = NoCall
    /\ pre = portfolio
    /\ results = NoResults
    /\ rm = None
    /\ sizer = None
    /\ ret = None

Portfolio_update_price ==
    /\ engine = "Portfolio"
    /\ i < MaxCalls
    /\ \E price \in Prices :
        LET time == portfolio.current_time + 1
        IN  /\ portfolio' = update_price(portfolio, price, time)
            /\ call' = [op |-> "update_price", signal |-> 0, price |-> price, time |-> time]
    /\ pre' = portfolio
    /\ i' = i + 1
    /\ UNCHANGED <<rm, sizer, ret, engine, data, signals, config, pc, sb, results>>

\* Callers (BacktestEngine.run, the tests) mark a bar with update_price before
\* they execute a signal on it, with the same timestamp.
Portfolio_execute_signal ==
    /\ engine = "Portfolio"
    /\ i < MaxCalls
    /\ portfolio.current_time # None
    /\ \E signal \in Signals, price \in Prices :
        LET time == portfolio.current_time
        IN  /\ portfolio' = execute_signal(portfolio, signal, price, time, config.position_size)
            /\ call' = [op |-> "execute_signal", signal |-> signal, price |-> price, time |-> time]
    /\ pre' = portfolio
    /\ i' = i + 1
    /\ UNCHANGED <<rm, sizer, ret, engine, data, signals, config, pc, sb, results>>

NextPortfolio ==
    \/ Portfolio_update_price
    \/ Portfolio_execute_signal

SpecPortfolio == InitPortfolio /\ [][NextPortfolio]_vars

\* ------------------------- specification of runs and comparisons on one engine
\* The longest list handed to compare_strategies.
MaxStrategies == 2

\* A strategy is its name and the signals it generates, bar by bar. Two RSI
\* strategies that differ in their thresholds only carry the same name
\* (f"RSI-{rsi_period}").
Strategies ==
    {[name |-> "RSI-14", signal |-> <<0, 1, -1>>],
     [name |-> "RSI-14", signal |-> <<0, -1, 1>>],
     [name |-> "Buy-and-Hold", signal |-> <<1, 0, 0>>],
     [name |-> "EMA-12-26", signal |-> <<0, 1, 0>>]}
StrategyLists == UNION {[1..n -> Strategies] : n \in 0..MaxStrategies}

generate_signals(strategy, bars) == [k \in 1..Len(bars) |-> strategy.signal[k]]

\* BacktestEngine.run(strategy) on an engine whose self.results is `stored`:
\* the exception, or the result and the updated self.results. (A value bound
\* by a singleton set is computed once.)
BacktestEngine_run_strategy(self, stored, strategy) ==
    LET name == strategy.name
        signals_frame == generate_signals(strategy, self.data)
    IN  CHOOSE out \in
            {IF run.raised # ""
             THEN [raised |-> run.raised, value |-> None, results |-> stored]
             ELSE [raised |-> "", value |-> run, results |-> DictSet(stored, name, run)] :
                run \in {BacktestEngine_run([self EXCEPT !.signals = signals_frame],
                                            PortfolioInit(self.initial_capital), 0)}} :
            TRUE

\* The for loop of compare_strategies over strategies[k..].
RECURSIVE run_each(_, _, _, _)
run_each(self, stored, strategies, k) ==
    IF k > Len(strategies) THEN [raised |-> "", results |-> stored]
    ELSE CHOOSE out \in
            {IF run.raised # ""
             THEN [raised |-> run.raised, results |-> run.results]
             ELSE run_each(self, run.results, strategies, k + 1) :
                run \in {BacktestEngine_run_strategy(self, stored, strategies[k])}} :
            TRUE

\* BacktestEngine.compare_strategies: the table is a sequence of
\* <<row label, metrics>>, one row per key of metrics_comparison.
BacktestEngine_compare_strategies(self, stored, strategies) ==
    CHOOSE out \in
        {IF runs.raised # ""
         THEN [raised |-> runs.raised, value |-> None, results |-> runs.results]
         ELSE [raised |-> "",
               value |-> [k \in 1..Len(runs.results) |->
                            <<runs.results[k][1], runs.results[k][2].metrics>>],
               results |-> runs.results] :
            runs \in {run_each(self, stored, strategies, 1)}} :
        TRUE

InitCompare ==
    /\ engine = "BacktestEngine"
    /\ data \in {<<Rat(1), Rat(2), Rat(1)>>, <<Rat(2), Rat(1), Rat(2)>>}
    /\ signals = <<>>
    /\ config \in [initial_capital : InitialCapitals, commission : {Zero},
                   slippage : {Zero}, position_size : {One}]
    /\ results = <<>>                       \* self.results = {}
    /\ i = 0
    /\ pc = "ready"
    /\ portfolio = None
    /\ sb = None
    /\ call = [op |-> "", strategies |-> <<>>]
    /\ pre = results
    /\ rm = None
    /\ sizer = None
    /\ ret = None

engine_run ==
    /\ engine = "BacktestEngine"
    /\ pc = "ready"
    /\ \E strategy \in Strategies :
        \E run \in {BacktestEngine_run_strategy(Self, results, strategy)} :
            /\ results' = run.results
            /\ ret' = [raised |-> run.raised, value |-> run.value]
            /\ call' = [op |-> "run", strategies |-> <<strategy>>]
    /\ pre' = results
    /\ UNCHANGED <<rm, sizer, engine, data, signals, config, i, pc, portfolio, sb>>

engine_compare_strategies ==
    /\ engine = "BacktestEngine"
    /\ pc = "ready"
    /\ \E strategies \in StrategyLists :
        \E compared \in {BacktestEngine_compare_strategies(Self, results, strategies)} :
            /\ results' = compared.results
            /\ ret' = [raised |-> compared.raised, value |-> compared.value]
            /\ call' = [op |-> "compare_strategies", strategies |-> strategies]
    /\ pre' = results
    /\ UNCHANGED <<rm, sizer, engine, data, signals, config, i, pc, portfolio, sb>>

NextCompare ==
    \/ engine_run
    \/ engine_compare_strategies

SpecCompare == InitCompare /\ [][NextCompare]_vars

\* ------------------------------ specification of direct use of the metrics
\* The longest equity curve, and the most round trips in a trade log.
MaxSamples == 3
MaxPairs == 2

\* Equity samples: gains, losses, a wiped-out account and a negative one (a
\* short position can lose more than the capital).
EquityValues == {Rat(5), Rat(10), Rat(20), Zero, Rat(-10)}
\* The first sample is the initial capital, a positive amount.
EquityCurves ==
    UNION {{c \in [1..n -> EquityValues] : RLt(Zero, c[1])} : n \in 2..MaxSamples}

\* The records Portfolio writes for one round trip: the ENTER record has no
\* 'pnl' key, the EXIT record holds the realized P&L.
RoundTrip(pnl) == <<[type |-> "ENTER LONG"], [type |-> "EXIT LONG", pnl |-> pnl]>>
ExitPnls == {Rat(1), Rat(3), Rat(-1)}
RECURSIVE PairLogs(_)
PairLogs(k) ==
    IF k = 0 THEN {<<>>}
    ELSE {log \o RoundTrip(pnl) : log \in PairLogs(k - 1), pnl \in ExitPnls}
\* Logs of whole round trips, and the log of a position that is still open.
MetricsTradeLogs ==
    UNION {PairLogs(k) : k \in 0..MaxPairs} \cup {<<[type |-> "ENTER LONG"]>>}
\* The list of dicts SimpleBacktest.run hands to _calculate_metrics.
SimpleTradeLogs ==
    {<<>>, <<[type |-> "OPEN"]>>, <<[type |-> "OPEN"], [type |-> "CLOSE"]>>}

InitMetrics ==
    /\ engine \in {"calculate_metrics", "_calculate_metrics"}
    /\ \E equity_curve \in EquityCurves :
       \E trades \in (IF engine = "calculate_metrics" THEN MetricsTradeLogs
                      ELSE SimpleTradeLogs) :
           call = [op |-> "", equity_curve |-> equity_curve, trades |-> trades]
    /\ data = <<>>
    /\ signals = <<>>
    /\ config = None
    /\ i = 0
    /\ pc = "call"
    /\ portfolio = None
    /\ sb = None
    /\ pre = None
    /\ results = NoResults
    /\ rm = None
    /\ sizer = None
    /\ ret = None

metrics_calculate_metrics ==
    /\ engine = "calculate_metrics"
    /\ pc = "call"
    /\ LET values == call.equity_curve
           \* a Series on the index 1..n, as Portfolio keeps it
           equity_curve == [k \in 1..Len(values) |-> <<k, values[k]>>]
       IN  ret' = calculate_metrics(equity_curve, call.trades)
    /\ call' = [call EXCEPT !.op = "calculate_metrics"]
    /\ pc' = "done"
    /\ UNCHANGED <<rm, sizer, engine, data, signals, config, i, portfolio, sb, pre, results>>

simple_calculate_metrics ==
    /\ engine = "_calculate_metrics"
    /\ pc = "call"
    /\ ret' = _calculate_metrics(call.equity_curve, call.trades)
    /\ call' = [call EXCEPT !.op = "_calculate_metrics"]
    /\ pc' = "done"
    /\ UNCHANGED <<rm, sizer, engine, data, signals, config, i, portfolio, sb, pre, results>>

NextMetrics ==
    \/ metrics_calculate_metrics
    \/ simple_calculate_metrics

SpecMetrics == InitMetrics /\ [][NextMetrics]_vars

\* ------------- specification of the runs on signals a strategy may hand over
\* Signal values outside {-1, 0, 1}.
MalformedSignals == {2, -3}

\* A signal frame may lack timestamps of the data: signals is a function on
\* a subset of the bars.
InitSignals ==
    /\ engine \in {"BacktestEngine", "SimpleBacktest"}
    /\ data \in Series({Rat(1), Rat(2)})
    /\ \E index \in SUBSET (1..Len(data)) :
           signals \in [index -> Signals \cup MalformedSignals]
    /\ config \in [initial_capital : InitialCapitals, commission : {Zero},
                   slippage : {<<1, 10>>}, position_size : {One}]
    /\ i = 0
    /\ pc = "loop"
    /\ portfolio = PortfolioInit(config.initial_capital)
    /\ sb = SimpleInit(config.initial_capital)
    /\ call = NoCall
    /\ pre = IF engine = "BacktestEngine" THEN portfolio ELSE sb
    /\ results = NoResults
    /\ rm = None
    /\ sizer = None
    /\ ret = None

SpecSignals == InitSignals /\ [][Next]_vars

\* -------------------- specification of the runs and of the direct use together
SpecLedger == (Init \/ InitPortfolio) /\ [][Next \/ NextPortfolio]_vars

\* ================================================================== claims
\* The first bar's timestamp.
FirstTimestamp == Timestamp(0)
NewRecords(before, after) == SubSeq(after, Len(before) + 1, Len(after))

\* C1 (no pyramiding): in a run of either engine, whenever the exposure held
\* before a bar is no longer held with the same sign after it (closed or
\* reversed), the first record that bar appended to the trade log is the
\* EXIT/CLOSE of that exposure; so a long never becomes a short, nor a short a
\* long, without the EXIT/CLOSE record of the prior exposure in between.
NoPyramiding ==
    /\ engine = "BacktestEngine" =>
        LET new == NewRecords(pre.trades, portfolio.trades)
        IN  /\ (is_long(pre.position) /\ ~is_long(portfolio.position)) =>
                (Len(new) >= 1 /\ new[1].type = "EXIT LONG"
                    /\ new[1].units = RAbs(pre.position.units))
            /\ (is_short(pre.position) /\ ~is_short(portfolio.position)) =>
                (Len(new) >= 1 /\ new[1].type = "EXIT SHORT"
                    /\ new[1].units = RAbs(pre.position.units))
    /\ engine = "SimpleBacktest" =>
        LET new == NewRecords(pre.trades, sb.trades)
        IN  (pre.position # 0 /\ Sign(sb.position) # Sign(pre.position)) =>
                (Len(new) >= 1 /\ new[1].type = "CLOSE"
                    /\ new[1].shares = -pre.position)

\* C1 witness: a bar of BacktestEngine.run turned a long into a short.
NoPyramidingWitness ==
    /\ engine = "BacktestEngine"
    /\ is_long(pre.position)
    /\ is_short(portfolio.position)

\* C2 (anti-look-ahead): in a run of either engine no trade record carries the
\* first bar's timestamp, and once the first bar has been processed (and no
\* later one yet) the position is flat, whatever the first bar's signal.
AntiLookAhead ==
    /\ engine = "BacktestEngine" =>
        /\ \A k \in 1..Len(portfolio.trades) : portfolio.trades[k].time # FirstTimestamp
        /\ i = 1 => is_flat(portfolio.position)
        /\ (pc = "done" /\ results.raised = "") =>
            \A k \in 1..Len(results.trades) : results.trades[k].time # FirstTimestamp
    /\ engine = "SimpleBacktest" =>
        /\ \A k \in 1..Len(sb.trades) : sb.trades[k].timestamp # FirstTimestamp
        /\ i = 1 => sb.position = 0
        /\ pc = "done" =>
            \A k \in 1..Len(results.trades) : results.trades[k].timestamp # FirstTimestamp

\* C2 witness: BacktestEngine.run returned a trade log for a series whose first
\* bar carried a non-zero signal.
AntiLookAheadWitness ==
    /\ engine = "BacktestEngine"
    /\ pc = "done"
    /\ signals[1] # 0
    /\ results.raised = ""
    /\ Len(results.trades) > 0

\* The last call was execute_signal with a signal opposite to the position
\* that was open when it was made.
OppositeSignalExecuted ==
    /\ call.op = "execute_signal"
    /\ \/ (call.signal = -1 /\ is_long(pre.position))
       \/ (call.signal = 1 /\ is_short(pre.position))

\* C3 (reversal ordering): execute_signal with a signal opposite to the open
\* position appends the EXIT record (P&L realized into current_capital) and
\* then the ENTER record of the opposite direction with the same timestamp,
\* sized from the updated capital, and leaves the portfolio in that opposite
\* position.
ReversalOrdering ==
    OppositeSignalExecuted =>
        LET new == NewRecords(pre.trades, portfolio.trades)
            pnl == get_pnl(pre.position, call.price)
            capital == RAdd(pre.current_capital, pnl)
            units == RDiv(RMul(capital, config.position_size), call.price)
        IN  /\ Len(new) = 2
            /\ new[1].type = (IF call.signal = -1 THEN "EXIT LONG" ELSE "EXIT SHORT")
            /\ new[1].time = call.time
            /\ new[1].pnl = pnl
            /\ new[1].capital = capital
            /\ portfolio.current_capital = capital
            /\ new[2].type = (IF call.signal = -1 THEN "ENTER SHORT" ELSE "ENTER LONG")
            /\ new[2].time = call.time
            /\ new[2].units = units
            /\ new[2].capital = capital
            /\ call.signal = -1 => is_short(portfolio.position)
            /\ call.signal = 1 => is_long(portfolio.position)
            /\ RAbs(portfolio.position.units) = units

\* C4 (closing by opposite signal): after execute_signal with a signal opposite
\* to the open position the portfolio is flat and the call appended exactly
\* the EXIT record matching the ENTER record that opened the position.
ClosingByOppositeSignal ==
    OppositeSignalExecuted =>
        LET new == NewRecords(pre.trades, portfolio.trades)
            entered == pre.trades[Len(pre.trades)]
        IN  /\ is_flat(portfolio.position)
            /\ Len(new) = 1
            /\ entered.type = "ENTER LONG" => new[1].type = "EXIT LONG"
            /\ entered.type = "ENTER SHORT" => new[1].type = "EXIT SHORT"

\* C5 (entry from flat): execute_signal(+1, price, time) on a flat portfolio
\* leaves it long and appends exactly one record, ENTER LONG with that price
\* and time; execute_signal(-1, price, time) on a flat portfolio leaves it
\* short with exactly one ENTER SHORT record.
EntryFromFlat ==
    (call.op = "execute_signal" /\ is_flat(pre.position) /\ call.signal # 0) =>
        LET new == NewRecords(pre.trades, portfolio.trades)
        IN  /\ Len(new) = 1
            /\ new[1].price = call.price
            /\ new[1].time = call.time
            /\ call.signal = 1 =>
                (is_long(portfolio.position) /\ new[1].type = "ENTER LONG")
            /\ call.signal = -1 =>
                (is_short(portfolio.position) /\ new[1].type = "ENTER SHORT")

\* What the cash-accounting rule charges and pays for a trade of `shares` at
\* `price`: gross value plus, or minus, slippage and commission on it.
Gross(shares, price) == RMul(Rat(Abs(shares)), price)
Costs(shares, price) ==
    RAdd(RMul(Gross(shares, price), config.slippage),
         RMul(Gross(shares, price), config.commission))
Debit(shares, price) == RAdd(Gross(shares, price), Costs(shares, price))
Credit(shares, price) == RSub(Gross(shares, price), Costs(shares, price))

\* C6 (cash accounting of a round trip in SimpleBacktest.run): opening a long
\* takes gross + slippage + commission from cash and closing it adds
\* gross - slippage - commission; opening a short adds gross - costs and
\* closing it takes gross + costs; for closes by an opposite signal and for
\* the final close after the last bar.
CashAccounting ==
    engine = "SimpleBacktest" =>
        /\ pc = "loop" =>
            LET new == NewRecords(pre.trades, sb.trades)
                price == data[i]
                closes == Len(new) >= 1 /\ new[1].type = "CLOSE"
                before_open == IF closes THEN new[1].capital ELSE pre.capital
            IN  /\ closes =>
                    new[1].capital =
                        (IF pre.position > 0
                         THEN RAdd(pre.capital, Credit(pre.position, price))
                         ELSE RSub(pre.capital, Debit(pre.position, price)))
                /\ \A k \in 1..Len(new) : new[k].type = "OPEN" =>
                    new[k].capital =
                        (IF new[k].shares > 0
                         THEN RSub(before_open, Debit(new[k].shares, price))
                         ELSE RAdd(before_open, Credit(new[k].shares, price)))
        /\ (pc = "done" /\ sb.position # 0) =>
            results.final_capital =
                (IF sb.position > 0
                 THEN RAdd(sb.capital, Credit(sb.position, data[Len(data)]))
                 ELSE RSub(sb.capital, Debit(sb.position, data[Len(data)])))

\* C7 (zero-cost buy-and-hold): with commission = 0 and slippage = 0, a
\* SimpleBacktest run whose only trade is one long entry with all capital,
\* held to the end, returns final_capital = initial_capital x close[last] /
\* close[entry bar], to within the value of the one share that whole-share
\* sizing may leave unbought.
ZeroCostBuyAndHold ==
    (/\ engine = "SimpleBacktest"
     /\ pc = "done"
     /\ config.commission = Zero
     /\ config.slippage = Zero
     /\ config.position_size = One
     /\ Len(results.trades) = 1
     /\ results.trades[1].type = "OPEN"
     /\ results.trades[1].shares > 0) =>
        LET entry == data[results.trades[1].timestamp]
            last == data[Len(data)]
            expected == RDiv(RMul(config.initial_capital, last), entry)
        IN  RLe(RAbs(RSub(results.final_capital, expected)), RMax(entry, last))

Count(trades, types) == Cardinality({k \in 1..Len(trades) : trades[k].type \in types})

\* C8 (force-close at end): when run returns, no exposure remains open and
\* the returned trade log holds a closing record for every opening record.
ForceCloseAtEnd ==
    pc = "done" =>
        /\ (engine = "BacktestEngine" /\ results.raised = "") =>
            /\ is_flat(portfolio.position)
            /\ Count(results.trades, {"ENTER LONG", "ENTER SHORT"})
                = Count(results.trades, {"EXIT LONG", "EXIT SHORT"})
        /\ engine = "SimpleBacktest" =>
            Count(results.trades, {"OPEN"}) = Count(results.trades, {"CLOSE"})

\* C9 (costs are always unfavorable): the price BacktestEngine.run hands to
\* execute_signal is never below the bar's close for a buy (+1) and never
\* above it for a sell (-1).
CostsUnfavorable ==
    (engine = "BacktestEngine" /\ call.op = "execute_signal") =>
        /\ call.signal = 1 => RLe(data[call.time], call.price)
        /\ call.signal = -1 => RLe(call.price, data[call.time])

\* The run of the same engine on the same bars and signals with other costs.
RunWithCosts(commission, slippage) ==
    LET self == [Self EXCEPT !.commission = commission, !.slippage = slippage]
    IN  IF engine = "BacktestEngine"
        THEN BacktestEngine_run(self, PortfolioInit(self.initial_capital), 0)
        ELSE SimpleBacktest_run(self, SimpleInit(self.initial_capital), 0)

\* C10 (cost monotonicity): for a finished run with at least one round trip,
\* the same bars and signals run with a commission and a slippage that are
\* each at least as high never give a higher total_return.
CostMonotonicity ==
    (/\ pc = "done"
     /\ results.raised = ""
     /\ Count(results.trades, {"EXIT LONG", "EXIT SHORT", "CLOSE"}) >= 1) =>
        \A commission \in Rates, slippage \in Rates :
            (RLe(config.commission, commission) /\ RLe(config.slippage, slippage)) =>
                LET dearer == RunWithCosts(commission, slippage)
                IN  dearer.raised = "" =>
                        RLe(dearer.metrics.total_return, results.metrics.total_return)

\* C11 (equity valuation): the equity sample a bar of BacktestEngine.run or
\* SimpleBacktest.run records equals the cash held when the bar starts plus
\* the unrealized P&L (SimpleBacktest: the market value) of the position held
\* then, valued at that bar's closing price, whatever the bar's signal and
\* the slippage setting.
EquityValuation ==
    (pc = "loop" /\ i >= 1) =>
        /\ engine = "BacktestEngine" =>
            LET sample == portfolio.equity_curve[Len(portfolio.equity_curve)]
            IN  /\ sample[1] = Timestamp(i - 1)
                /\ sample[2] = RAdd(pre.current_capital, get_pnl(pre.position, data[i]))
        /\ engine = "SimpleBacktest" =>
            sb.equity_curve[i] = RAdd(pre.capital, RMul(Rat(pre.position), data[i]))

\* C12 (one equity sample per bar): after i bars of a run the equity curve
\* holds exactly i samples, the k-th one keyed by the k-th bar's timestamp,
\* and the first sample equals initial_capital; the curve run returns has one
\* sample per bar of the data.
OneSamplePerBar ==
    /\ engine = "BacktestEngine" =>
        /\ Len(portfolio.equity_curve) = i
        /\ \A k \in 1..Len(portfolio.equity_curve) :
            portfolio.equity_curve[k][1] = Timestamp(k - 1)
        /\ i >= 1 => portfolio.equity_curve[1][2] = config.initial_capital
        /\ (pc = "done" /\ results.raised = "") =>
            /\ results.equity_curve = portfolio.equity_curve
            /\ Len(results.equity_curve) = Len(data)
    /\ engine = "SimpleBacktest" =>
        /\ Len(sb.equity_curve) = i
        /\ i >= 1 => sb.equity_curve[1] = config.initial_capital
        /\ pc = "done" =>
            /\ results.equity_curve = sb.equity_curve
            /\ Len(results.equity_curve) = Len(data)

\* C12 witness: BacktestEngine.run returned the curve of a run over several
\* bars in which trades happened.
OneSamplePerBarWitness ==
    /\ engine = "BacktestEngine"
    /\ pc = "done"
    /\ results.raised = ""
    /\ Len(data) >= 2
    /\ Len(results.trades) > 0
    /\ Len(results.equity_curve) = Len(data)

\* ======================================================== risk management

\* ------------------------------------------------------ SimpleRiskManager
SimpleRiskManagerInit(stop_loss_pct, take_profit_pct, trailing_stop_pct, use_trailing) ==
    [stop_loss_pct |-> RMax(<<1, 200>>, RMin(stop_loss_pct, <<1, 5>>)),
     take_profit_pct |-> RMax(<<1, 100>>, RMin(take_profit_pct, <<1, 2>>)),
     trailing_stop_pct |-> RMax(<<1, 200>>, RMin(trailing_stop_pct, <<1, 10>>)),
     use_trailing |-> use_trailing,
     entry_price |-> Zero,
     position_type |-> 0,
     stop_price |-> Zero,
     take_profit_price |-> Zero,
     highest_price |-> Zero,
     lowest_price |-> Inf]

\* enter_position keeping a stop that an earlier position left tighter
SimpleRiskManager_enter_position_keeps_stop(self, price, position_type) ==
    [self EXCEPT
        !.entry_price = price,
        !.position_type = position_type,
        !.highest_price = price,
        !.lowest_price = price,
        !.stop_price =
            IF position_type = 1
            THEN RMax(self.stop_price, RMul(price, RSub(One, self.stop_loss_pct)))
            ELSE RMul(price, RAdd(One, self.stop_loss_pct)),
        !.take_profit_price =
            IF position_type = 1
            THEN RMul(price, RAdd(One, self.take_profit_pct))
            ELSE RMul(price, RSub(One, self.take_profit_pct))]

SimpleRiskManager_enter_position(self, price, position_type) ==
    [self EXCEPT
        !.entry_price = price,
        !.position_type = position_type,
        !.highest_price = price,
        !.lowest_price = price,
        !.stop_price =
            IF position_type = 1
            THEN RMul(price, RSub(One, self.stop_loss_pct))
            ELSE RMul(price, RAdd(One, self.stop_loss_pct)),
        !.take_profit_price =
            IF position_type = 1
            THEN RMul(price, RAdd(One, self.take_profit_pct))
            ELSE RMul(price, RSub(One, self.take_profit_pct))]

\* _check_stop_loss with strict comparisons
_check_stop_loss_strict(self, price) ==
    IF self.position_type = 1
    THEN RLt(price, self.stop_price)
    ELSE RLt(self.stop_price, price)

_check_stop_loss(self, price) ==
    IF self.position_type = 1
    THEN RLe(price, self.stop_price)
    ELSE RLe(self.stop_price, price)

_check_take_profit(self, price) ==
    IF self.position_type = 1
    THEN RLe(self.take_profit_price, price)
    ELSE RLe(price, self.take_profit_price)

\* _update_trailing_stop that sets the stop to the new level without max/min
_update_trailing_stop_loosens(self, price) ==
    IF self.position_type = 1
    THEN IF RLt(self.highest_price, price)
         THEN [self EXCEPT
                !.highest_price = price,
                !.stop_price = RMul(price, RSub(One, self.trailing_stop_pct))]
         ELSE self
    ELSE IF RLt(price, self.lowest_price)
         THEN [self EXCEPT
                !.lowest_price = price,
                !.stop_price = RMul(price, RAdd(One, self.trailing_stop_pct))]
         ELSE self

_update_trailing_stop(self, price) ==
    IF self.position_type = 1
    THEN IF RLt(self.highest_price, price)
         THEN LET new_stop == RMul(price, RSub(One, self.trailing_stop_pct))
              IN  [self EXCEPT
                    !.highest_price = price,
                    !.stop_price = RMax(self.stop_price, new_stop)]
         ELSE self
    ELSE IF RLt(price, self.lowest_price)
         THEN LET new_stop == RMul(price, RAdd(One, self.trailing_stop_pct))
              IN  [self EXCEPT
                    !.lowest_price = price,
                    !.stop_price = RMin(self.stop_price, new_stop)]
         ELSE self

_check_trailing_stop(self, price) == _check_stop_loss(self, price)

\* update_price checking take-profit before stop-loss
SimpleRiskManager_update_price_profit_first(self, current_price) ==
    IF self.position_type = 0
    THEN [self |-> self, ret |-> <<FALSE, "none">>]
    ELSE
        LET trailed == IF self.use_trailing
                       THEN _update_trailing_stop(self, current_price)
                       ELSE self
        IN  [self |-> trailed,
             ret |-> IF _check_take_profit(trailed, current_price)
                         THEN <<TRUE, "take_profit">>
                     ELSE IF _check_stop_loss(trailed, current_price)
                         THEN <<TRUE, "stop_loss">>
                     ELSE IF self.use_trailing /\ _check_trailing_stop(trailed, current_price)
                         THEN <<TRUE, "trailing_stop">>
                     ELSE <<FALSE, "none">>]

\* Returns the object after the call and the (should_exit, exit_reason) pair.
SimpleRiskManager_update_price(self, current_price) ==
    IF self.position_type = 0
    THEN [self |-> self, ret |-> <<FALSE, "none">>]
    ELSE
        LET trailed == IF self.use_trailing
                       THEN _update_trailing_stop(self, current_price)
                       ELSE self
        IN  [self |-> trailed,
             ret |-> IF _check_stop_loss(trailed, current_price)
                         THEN <<TRUE, "stop_loss">>
                     ELSE IF _check_take_profit(trailed, current_price)
                         THEN <<TRUE, "take_profit">>
                     ELSE IF self.use_trailing /\ _check_trailing_stop(trailed, current_price)
                         THEN <<TRUE, "trailing_stop">>
                     ELSE <<FALSE, "none">>]

\* exit_position that leaves the risk levels in place
SimpleRiskManager_exit_position_keeps_levels(self) ==
    [self EXCEPT !.position_type = 0]

SimpleRiskManager_exit_position(self) ==
    [self EXCEPT
        !.entry_price = Zero,
        !.position_type = 0,
        !.stop_price = Zero,
        !.take_profit_price = Zero,
        !.highest_price = Zero,
        !.lowest_price = Inf]

\* ---------------------------------------- StopLoss, TakeProfit, TrailingStop
\* The interpreter's recursion limit (sys.getrecursionlimit(), scaled down):
\* a call nested deeper than this raises RecursionError.
RecursionLimit == 3

\* The optional `data` dict is a set of <<key, value>> pairs; None and {} are
\* both falsy and read alike, both are the empty set.
NoData == {}
Get(d, key, default) ==
    IF \E e \in d : e[1] = key
    THEN (CHOOSE e \in d : e[1] = key)[2]
    ELSE default

Returned(value) == [raised |-> "", value |-> value]
Raised(error) == [raised |-> error, value |-> Zero]

StopLossInit(stop_type, value, atr_multiplier) ==
    [stop_type |-> stop_type, value |-> value, atr_multiplier |-> atr_multiplier]

\* data_dict is the `data` argument, `depth` the nesting depth of the call.
RECURSIVE calculate_stop_price(_, _, _, _, _)
calculate_stop_price(self, entry_price, position_type, data_dict, depth) ==
    IF depth > RecursionLimit THEN Raised("RecursionError")
    ELSE IF position_type = 0 THEN Returned(Zero)
    ELSE IF self.stop_type = "percent"
    THEN IF position_type = 1
         THEN Returned(RMul(entry_price, RSub(One, self.value)))
         ELSE Returned(RMul(entry_price, RAdd(One, self.value)))
    ELSE IF self.stop_type = "fixed"
    THEN IF position_type = 1
         THEN Returned(RSub(entry_price, self.value))
         ELSE Returned(RAdd(entry_price, self.value))
    ELSE IF self.stop_type = "atr"
    THEN LET atr == Get(data_dict, "atr", Zero)
         IN  IF atr = Zero
             THEN calculate_stop_price(self, entry_price, position_type, NoData, depth + 1)
             ELSE IF position_type = 1
             THEN Returned(RSub(entry_price, RMul(atr, self.atr_multiplier)))
             ELSE Returned(RAdd(entry_price, RMul(atr, self.atr_multiplier)))
    ELSE IF self.stop_type = "volatility"
    THEN LET volatility == Get(data_dict, "volatility", Zero)
         IN  IF volatility = Zero
             THEN calculate_stop_price(self, entry_price, position_type, NoData, depth + 1)
             ELSE IF position_type = 1
             THEN Returned(RSub(entry_price, RMul(volatility, self.value)))
             ELSE Returned(RAdd(entry_price, RMul(volatility, self.value)))
    ELSE Returned(RMul(entry_price, RSub(One, RMul(self.value, Rat(position_type)))))

StopLoss_is_triggered(stop_price, current_price, position_type) ==
    IF position_type = 0 THEN FALSE
    ELSE IF position_type = 1 THEN RLe(current_price, stop_price)
    ELSE RLe(stop_price, current_price)

TakeProfitInit(tp_type, value, risk_reward_ratio) ==
    [tp_type |-> tp_type, value |-> value, risk_reward_ratio |-> risk_reward_ratio]

\* RiskManager always passes a stop_loss_price, so the branch for a missing
\* one is never taken here.
calculate_take_profit_price(self, entry_price, position_type, stop_loss_price) ==
    IF position_type = 0 THEN Zero
    ELSE IF self.tp_type = "percent"
    THEN IF position_type = 1
         THEN RMul(entry_price, RAdd(One, self.value))
         ELSE RMul(entry_price, RSub(One, self.value))
    ELSE IF self.tp_type = "fixed"
    THEN IF position_type = 1
         THEN RAdd(entry_price, self.value)
         ELSE RSub(entry_price, self.value)
    ELSE IF self.tp_type = "risk_reward"
    THEN LET risk == RAbs(RSub(entry_price, stop_loss_price))
         IN  IF position_type = 1
             THEN RAdd(entry_price, RMul(risk, self.risk_reward_ratio))
             ELSE RSub(entry_price, RMul(risk, self.risk_reward_ratio))
    ELSE RMul(entry_price, RAdd(One, RMul(self.value, Rat(position_type))))

TakeProfit_is_triggered(take_profit_price, current_price, position_type) ==
    IF position_type = 0 THEN FALSE
    ELSE IF position_type = 1 THEN RLe(take_profit_price, current_price)
    ELSE RLe(current_price, take_profit_price)

TrailingStopInit(stop_type, value, activation_percent, atr_multiplier) ==
    [stop_type |-> stop_type, value |-> value,
     activation_percent |-> activation_percent, atr_multiplier |-> atr_multiplier,
     is_active |-> FALSE,
     highest_price |-> Zero,
     lowest_price |-> Inf,
     current_stop_price |-> Zero]

TrailingStop_reset(self) ==
    [self EXCEPT !.is_active = FALSE, !.highest_price = Zero,
                 !.lowest_price = Inf, !.current_stop_price = Zero]

RECURSIVE _calculate_stop_price(_, _, _, _, _)
_calculate_stop_price(self, reference_price, position_type, data_dict, depth) ==
    IF depth > RecursionLimit THEN Raised("RecursionError")
    ELSE IF self.stop_type = "percent"
    THEN IF position_type = 1
         THEN Returned(RMul(reference_price, RSub(One, self.value)))
         ELSE Returned(RMul(reference_price, RAdd(One, self.value)))
    ELSE IF self.stop_type = "fixed"
    THEN IF position_type = 1
         THEN Returned(RSub(reference_price, self.value))
         ELSE Returned(RAdd(reference_price, self.value))
    ELSE IF self.stop_type = "atr"
    THEN LET atr == Get(data_dict, "atr", Zero)
         IN  IF atr = Zero
             THEN _calculate_stop_price(self, reference_price, position_type, NoData, depth + 1)
             ELSE IF position_type = 1
             THEN Returned(RSub(reference_price, RMul(atr, self.atr_multiplier)))
             ELSE Returned(RAdd(reference_price, RMul(atr, self.atr_multiplier)))
    ELSE Returned(RMul(reference_price, RSub(One, RMul(self.value, Rat(position_type)))))

\* Returns the TrailingStop object after the call, what was raised, and the
\* stop price returned. An exception leaves the assignments made before it.
TrailingStop_update(self, entry_price, current_price, position_type, data_dict) ==
    IF position_type = 0
    THEN [self |-> TrailingStop_reset(self), raised |-> "", value |-> Zero]
    ELSE
        LET activation_threshold ==
                RMul(entry_price,
                     RAdd(One, RMul(self.activation_percent, Rat(position_type))))
            reached == IF position_type = 1
                       THEN RLe(activation_threshold, current_price)
                       ELSE RLe(current_price, activation_threshold)
            beyond == IF position_type = 1
                      THEN RLt(self.highest_price, current_price)
                      ELSE RLt(current_price, self.lowest_price)
            moved == IF position_type = 1
                     THEN [self EXCEPT !.highest_price = current_price]
                     ELSE [self EXCEPT !.lowest_price = current_price]
            at_price == _calculate_stop_price(self, current_price, position_type, data_dict, 1)
            at_entry == _calculate_stop_price(self, entry_price, position_type, data_dict, 1)
            tighter == IF position_type = 1
                       THEN RLt(self.current_stop_price, at_price.value)
                       ELSE RLt(at_price.value, self.current_stop_price)
        IN  IF ~self.is_active
            THEN IF reached
                 THEN LET activated == [moved EXCEPT !.is_active = TRUE]
                      IN  IF at_price.raised # ""
                          THEN [self |-> activated, raised |-> at_price.raised, value |-> Zero]
                          ELSE [self |-> [activated EXCEPT !.current_stop_price = at_price.value],
                                raised |-> "", value |-> at_price.value]
                 ELSE IF at_entry.raised # ""
                      THEN [self |-> self, raised |-> at_entry.raised, value |-> Zero]
                      ELSE [self |-> [self EXCEPT !.current_stop_price = at_entry.value],
                            raised |-> "", value |-> at_entry.value]
            ELSE IF beyond
                 THEN IF at_price.raised # ""
                      THEN [self |-> moved, raised |-> at_price.raised, value |-> Zero]
                      ELSE IF tighter
                      THEN [self |-> [moved EXCEPT !.current_stop_price = at_price.value],
                            raised |-> "", value |-> at_price.value]
                      ELSE [self |-> moved, raised |-> "", value |-> self.current_stop_price]
                 ELSE [self |-> self, raised |-> "", value |-> self.current_stop_price]

TrailingStop_is_triggered(self, current_price, position_type) ==
    IF position_type = 0 \/ ~self.is_active THEN FALSE
    ELSE IF position_type = 1 THEN RLe(current_price, self.current_stop_price)
    ELSE RLe(self.current_stop_price, current_price)

\* ------------------------------------------------------------ RiskManager
RiskManagerInit(stop_loss, take_profit, trailing_stop) ==
    [stop_loss |-> stop_loss,
     take_profit |-> take_profit,
     trailing_stop |-> trailing_stop,
     entry_price |-> Zero,
     position_type |-> 0,
     stop_price |-> Zero,
     take_profit_price |-> Zero,
     trailing_stop_price |-> Zero]

\* Returns the object after the call and what the call returned or raised.
RiskManager_on_enter_position(self, price, position_type, data_dict) ==
    LET entered == [self EXCEPT !.entry_price = price, !.position_type = position_type]
        stop == calculate_stop_price(self.stop_loss, price, position_type, data_dict, 1)
        target == calculate_take_profit_price(self.take_profit, price, position_type, stop.value)
        levelled == [entered EXCEPT !.stop_price = stop.value,
                                    !.take_profit_price = target,
                                    !.trailing_stop = TrailingStop_reset(self.trailing_stop)]
        trail == TrailingStop_update(levelled.trailing_stop, price, price, position_type, data_dict)
    IN  IF stop.raised # ""
        THEN [self |-> entered, ret |-> Raised(stop.raised)]
        ELSE IF trail.raised # ""
        THEN [self |-> [levelled EXCEPT !.trailing_stop = trail.self],
              ret |-> Raised(trail.raised)]
        ELSE [self |-> [levelled EXCEPT !.trailing_stop = trail.self,
                                        !.trailing_stop_price = trail.value],
              ret |-> Returned([entry_price |-> price, stop_loss |-> stop.value,
                                take_profit |-> target, trailing_stop |-> trail.value])]

RiskManager_on_price_update(self, price, data_dict) ==
    IF self.position_type = 0
    THEN [self |-> self, ret |-> Returned(<<FALSE, "none">>)]
    ELSE
        LET trail == TrailingStop_update(self.trailing_stop, self.entry_price, price,
                                         self.position_type, data_dict)
            trailed == [self EXCEPT !.trailing_stop = trail.self,
                                    !.trailing_stop_price = trail.value]
        IN  IF trail.raised # ""
            THEN [self |-> [self EXCEPT !.trailing_stop = trail.self],
                  ret |-> Raised(trail.raised)]
            ELSE [self |-> trailed,
                  ret |-> Returned(
                    IF StopLoss_is_triggered(self.stop_price, price, self.position_type)
                        THEN <<TRUE, "stop_loss">>
                    ELSE IF TakeProfit_is_triggered(self.take_profit_price, price, self.position_type)
                        THEN <<TRUE, "take_profit">>
                    ELSE IF TrailingStop_is_triggered(trail.self, price, self.position_type)
                        THEN <<TRUE, "trailing_stop">>
                    ELSE <<FALSE, "none">>)]

RiskManager_on_exit_position(self) ==
    [self EXCEPT
        !.entry_price = Zero,
        !.position_type = 0,
        !.stop_price = Zero,
        !.take_profit_price = Zero,
        !.trailing_stop = TrailingStop_reset(self.trailing_stop),
        !.trailing_stop_price = Zero]

\* ------------------------- specification of direct use of the risk managers
RiskPrices ==
    {Rat(80), Rat(96), <<9799, 100>>, Rat(98), <<9801, 100>>, Rat(99),
     Rat(100), Rat(102), Rat(104), Rat(105), Rat(110)}
EntryPrices == {Rat(100), Rat(105)}
\* The prices fed to a RiskManager: its entry price and prices on both sides of
\* the activation threshold, the stop and the target.
ManagerPrices == {Rat(95), Rat(98), Rat(100), Rat(102), Rat(105)}
ManagerEntryPrices == {Rat(100)}
PositionTypes == {1, -1}
DataDicts ==
    {NoData,
     {<<"atr", Zero>>, <<"volatility", Zero>>},
     {<<"atr", One>>, <<"volatility", One>>}}

\* Constructor arguments: the defaults, and values outside the clamped range.
SimpleRiskManagerArgs ==
    [stop_loss_pct : {<<1, 50>>, <<1, 2>>},
     take_profit_pct : {<<1, 25>>},
     trailing_stop_pct : {<<1, 50>>, <<1, 10>>},
     use_trailing : BOOLEAN]
\* The default configuration and mixes of the other rule types.
RiskManagerArgs ==
    {[stop_type |-> "percent", tp_type |-> "percent", trailing_type |-> "percent"],
     [stop_type |-> "fixed", tp_type |-> "risk_reward", trailing_type |-> "fixed"],
     [stop_type |-> "atr", tp_type |-> "risk_reward", trailing_type |-> "atr"],
     [stop_type |-> "atr", tp_type |-> "percent", trailing_type |-> "percent"],
     [stop_type |-> "volatility", tp_type |-> "fixed", trailing_type |-> "atr"],
     [stop_type |-> "percent", tp_type |-> "percent", trailing_type |-> "atr"]}

\* The price handed to a RiskManager with an open position is at or beyond the
\* activation threshold of its trailing stop.
ReachedActivation(self, price) ==
    /\ self.position_type # 0
    /\ LET activation_threshold ==
               RMul(self.entry_price,
                    RAdd(One, RMul(self.trailing_stop.activation_percent,
                                   Rat(self.position_type))))
       IN  IF self.position_type = 1
           THEN RLe(activation_threshold, price)
           ELSE RLe(price, activation_threshold)

NoRiskCall == [op |-> "", price |-> Zero, position_type |-> 0, data |-> NoData]

InitRisk ==
    /\ engine \in {"SimpleRiskManager", "RiskManager"}
    /\ \/ /\ engine = "SimpleRiskManager"
          /\ config \in SimpleRiskManagerArgs
          /\ rm = SimpleRiskManagerInit(config.stop_loss_pct, config.take_profit_pct,
                                        config.trailing_stop_pct, config.use_trailing)
       \/ /\ engine = "RiskManager"
          /\ config \in RiskManagerArgs
          /\ rm = RiskManagerInit(
                    StopLossInit(config.stop_type, <<1, 50>>, Rat(2)),
                    TakeProfitInit(config.tp_type, <<1, 20>>, Rat(2)),
                    TrailingStopInit(config.trailing_type, <<1, 50>>, <<1, 100>>, Rat(2)))
    /\ data = <<>>   \* the first price since the last on_enter_position that
                     \* reached the activation threshold of the trailing stop
    /\ signals = <<>>
    /\ i = 0
    /\ pc = "new"    \* "new", "open" after an entry, "closed" once that position is exited
    /\ portfolio = None
    /\ sb = None
    /\ call = NoRiskCall
    /\ pre = rm
    /\ results = NoResults
    /\ sizer = None
    /\ ret = None

rm_enter_position ==
    /\ engine = "SimpleRiskManager"
    /\ \E price \in EntryPrices, position_type \in PositionTypes :
        /\ rm' = SimpleRiskManager_enter_position(rm, price, position_type)
        /\ ret' = Returned([entry_price |-> rm'.entry_price, stop_loss |-> rm'.stop_price,
                            take_profit |-> rm'.take_profit_price,
                            position_type |-> rm'.position_type])
        /\ call' = [op |-> "enter_position", price |-> price,
                    position_type |-> position_type, data |-> NoData]
    /\ pre' = rm
    /\ pc' = "open"
    /\ UNCHANGED <<sizer, engine, data, signals, config, i, portfolio, sb, results>>

rm_update_price ==
    /\ engine = "SimpleRiskManager"
    /\ \E current_price \in RiskPrices :
        LET step == SimpleRiskManager_update_price(rm, current_price)
        IN  /\ rm' = step.self
            /\ ret' = Returned(step.ret)
            /\ call' = [op |-> "update_price", price |-> current_price,
                        position_type |-> 0, data |-> NoData]
    /\ pre' = rm
    /\ UNCHANGED <<sizer, engine, data, signals, config, i, pc, portfolio, sb, results>>

rm_exit_position ==
    /\ engine = "SimpleRiskManager"
    /\ rm' = SimpleRiskManager_exit_position(rm)
    /\ ret' = Returned(None)
    /\ call' = [op |-> "exit_position", price |-> Zero, position_type |-> 0, data |-> NoData]
    /\ pre' = rm
    /\ pc' = IF pc = "open" THEN "closed" ELSE pc
    /\ UNCHANGED <<sizer, engine, data, signals, config, i, portfolio, sb, results>>

rm_on_enter_position ==
    /\ engine = "RiskManager"
    /\ \E price \in ManagerEntryPrices, position_type \in PositionTypes, data_dict \in DataDicts :
        LET step == RiskManager_on_enter_position(rm, price, position_type, data_dict)
        IN  /\ rm' = step.self
            /\ ret' = step.ret
            /\ call' = [op |-> "on_enter_position", price |-> price,
                        position_type |-> position_type, data |-> data_dict]
            /\ data' = IF ReachedActivation(step.self, price) THEN <<price>> ELSE <<>>
    /\ pre' = rm
    /\ pc' = "open"
    /\ UNCHANGED <<sizer, engine, signals, config, i, portfolio, sb, results>>

rm_on_price_update ==
    /\ engine = "RiskManager"
    /\ \E price \in ManagerPrices, data_dict \in DataDicts :
        LET step == RiskManager_on_price_update(rm, price, data_dict)
        IN  /\ rm' = step.self
            /\ ret' = step.ret
            /\ call' = [op |-> "on_price_update", price |-> price,
                        position_type |-> 0, data |-> data_dict]
            /\ data' = IF data = <<>> /\ ReachedActivation(rm, price)
                       THEN <<price>> ELSE data
    /\ pre' = rm
    /\ UNCHANGED <<sizer, engine, signals, config, i, pc, portfolio, sb, results>>

rm_on_exit_position ==
    /\ engine = "RiskManager"
    /\ rm' = RiskManager_on_exit_position(rm)
    /\ ret' = Returned(None)
    /\ call' = [op |-> "on_exit_position", price |-> Zero, position_type |-> 0, data |-> NoData]
    /\ pre' = rm
    /\ pc' = IF pc = "open" THEN "closed" ELSE pc
    /\ UNCHANGED <<sizer, engine, data, signals, config, i, portfolio, sb, results>>

NextRisk ==
    \/ rm_enter_position
    \/ rm_update_price
    \/ rm_exit_position
    \/ rm_on_enter_position
    \/ rm_on_price_update
    \/ rm_on_exit_position

SpecRisk == InitRisk /\ [][NextRisk]_vars

\* ============================================ claims on the risk managers
\* The percent-based level of a stop: entry x (1 - value) for a long,
\* entry x (1 + value) for a short.
PercentLevel(entry_price, position_type, value) ==
    IF position_type = 1
    THEN RMul(entry_price, RSub(One, value))
    ELSE RMul(entry_price, RAdd(One, value))

\* C13 (silent fallback terminates): when on_enter_position asks a StopLoss of
\* type ATR or VOLATILITY for its level and the data carry no ATR/volatility
\* (no data, or the value missing or 0), the call returns without raising and
\* the stop is the percent-based level; likewise the level a TrailingStop of
\* type ATR is asked for at entry.
SilentFallback ==
    (engine = "RiskManager" /\ call.op = "on_enter_position") =>
        /\ (/\ pre.stop_loss.stop_type \in {"atr", "volatility"}
            /\ Get(call.data, pre.stop_loss.stop_type, Zero) = Zero) =>
                /\ ret.raised = ""
                /\ rm.stop_price =
                    PercentLevel(call.price, call.position_type, pre.stop_loss.value)
        /\ (/\ pre.trailing_stop.stop_type = "atr"
            /\ Get(call.data, "atr", Zero) = Zero) =>
                /\ ret.raised = ""
                /\ rm.trailing_stop_price =
                    PercentLevel(call.price, call.position_type, pre.trailing_stop.value)

StopLossExactness ==
    (/\ engine = "SimpleRiskManager"
     /\ call.op = "update_price"
     /\ ~pre.use_trailing
     /\ pre.position_type # 0) =>
        LET level == PercentLevel(pre.entry_price, pre.position_type, pre.stop_loss_pct)
        IN  (ret.value = <<TRUE, "stop_loss">>) <=>
                (IF pre.position_type = 1
                 THEN RLe(call.price, level)
                 ELSE RLe(level, call.price))

\* C15 witness: entry 100 long with a 2% stop, update_price(98.0), the boundary,
\* returned (True, STOP_LOSS).
StopLossExactnessWitness ==
    /\ engine = "SimpleRiskManager"
    /\ call.op = "update_price"
    /\ ~pre.use_trailing
    /\ pre.position_type = 1
    /\ pre.entry_price = Rat(100)
    /\ pre.stop_loss_pct = <<1, 50>>
    /\ call.price = Rat(98)
    /\ ret.value = <<TRUE, "stop_loss">>

\* C16 (trailing stop only tightens): with use_trailing, an update_price on an
\* open long never lowers stop_price (on a short never raises it); a new
\* favorable extreme h moves it to h(1 - trailing_stop_pct) (short:
\* h(1 + trailing_stop_pct)) when that is tighter, and any other price
\* leaves it unchanged.
TrailingOnlyTightens ==
    (/\ engine = "SimpleRiskManager"
     /\ call.op = "update_price"
     /\ pre.use_trailing
     /\ pre.position_type # 0) =>
        LET h == call.price
            level == PercentLevel(h, pre.position_type, pre.trailing_stop_pct)
        IN  IF pre.position_type = 1
            THEN /\ RLe(pre.stop_price, rm.stop_price)
                 /\ RLt(pre.highest_price, h) =>
                        /\ rm.highest_price = h
                        /\ rm.stop_price = RMax(pre.stop_price, level)
                 /\ ~RLt(pre.highest_price, h) => rm.stop_price = pre.stop_price
            ELSE /\ RLe(rm.stop_price, pre.stop_price)
                 /\ RLt(h, pre.lowest_price) =>
                        /\ rm.lowest_price = h
                        /\ rm.stop_price = RMin(pre.stop_price, level)
                 /\ ~RLt(h, pre.lowest_price) => rm.stop_price = pre.stop_price

\* C16 witness: a new high on a long whose trailing level lies below the
\* stop in force, which stayed.
TrailingOnlyTightensWitness ==
    /\ engine = "SimpleRiskManager"
    /\ call.op = "update_price"
    /\ pre.use_trailing
    /\ pre.position_type = 1
    /\ RLt(pre.highest_price, call.price)
    /\ RLt(PercentLevel(call.price, 1, pre.trailing_stop_pct), pre.stop_price)
    /\ rm.stop_price = pre.stop_price

\* C17 (risk levels recomputed on every entry): after enter_position(p, d) the
\* entry price is p, the direction d, the stop p(1 -/+ stop_loss_pct), the
\* target p(1 +/- take_profit_pct) with stop < p < target for a long and
\* target < p < stop for a short, and the trailing high and low are p,
\* whatever state the object was in before the call.
LevelsRecomputedOnEntry ==
    (engine = "SimpleRiskManager" /\ call.op = "enter_position") =>
        LET p == call.price
            d == call.position_type
        IN  /\ rm.entry_price = p
            /\ rm.position_type = d
            /\ rm.stop_price = PercentLevel(p, d, pre.stop_loss_pct)
            /\ rm.take_profit_price = PercentLevel(p, -d, pre.take_profit_pct)
            /\ rm.highest_price = p
            /\ rm.lowest_price = p
            /\ d = 1 => (RLt(rm.stop_price, p) /\ RLt(p, rm.take_profit_price))
            /\ d = -1 => (RLt(rm.take_profit_price, p) /\ RLt(p, rm.stop_price))

\* C17 witness: enter_position(long) on an object still holding a long whose
\* stop trailing had tightened above the new stop, with no exit_position in
\* between.
LevelsRecomputedOnEntryWitness ==
    /\ engine = "SimpleRiskManager"
    /\ call.op = "enter_position"
    /\ call.position_type = 1
    /\ pre.position_type = 1
    /\ RLt(PercentLevel(pre.entry_price, 1, pre.stop_loss_pct), pre.stop_price)
    /\ RLt(rm.stop_price, pre.stop_price)

\* C18 (exit returns to flat): exit_position / on_exit_position leave
\* position_type 0 and entry, stop, target and trailing state cleared, and a
\* price update made after the exit and before the next entry returns
\* (False, NONE) and changes nothing.
ExitReturnsToFlat ==
    /\ (engine = "SimpleRiskManager" /\ call.op = "exit_position") =>
        /\ rm.position_type = 0
        /\ rm.entry_price = Zero
        /\ rm.stop_price = Zero
        /\ rm.take_profit_price = Zero
        /\ rm.highest_price = Zero
        /\ rm.lowest_price = Inf
    /\ (engine = "RiskManager" /\ call.op = "on_exit_position") =>
        /\ rm.position_type = 0
        /\ rm.entry_price = Zero
        /\ rm.stop_price = Zero
        /\ rm.take_profit_price = Zero
        /\ rm.trailing_stop_price = Zero
        /\ ~rm.trailing_stop.is_active
        /\ rm.trailing_stop.highest_price = Zero
        /\ rm.trailing_stop.lowest_price = Inf
        /\ rm.trailing_stop.current_stop_price = Zero
    /\ (/\ engine \in {"SimpleRiskManager", "RiskManager"}
        /\ pc = "closed"
        /\ call.op \in {"update_price", "on_price_update"}) =>
        /\ ret = Returned(<<FALSE, "none">>)
        /\ rm = pre

\* C18 witness: a price update on a RiskManager whose position was entered
\* and then exited.
ExitReturnsToFlatWitness ==
    /\ engine = "RiskManager"
    /\ pc = "closed"
    /\ call.op = "on_price_update"
    /\ ret = Returned(<<FALSE, "none">>)

\* ============================================== position sizing (kelly.py)
\* KellySizer.__init__: the object, or the ValueError its validation raises.
KellySizerInit(win_rate, win_loss_ratio, fraction, lookback) ==
    IF RLe(win_rate, Zero) \/ RLe(One, win_rate) THEN [raised |-> "ValueError"]
    ELSE IF RLe(win_loss_ratio, Zero) THEN [raised |-> "ValueError"]
    ELSE IF RLe(fraction, Zero) \/ RLt(One, fraction) THEN [raised |-> "ValueError"]
    ELSE [raised |-> "",
          win_rate |-> win_rate,
          win_loss_ratio |-> win_loss_ratio,
          fraction |-> fraction,
          lookback |-> lookback,
          historical_trades |-> <<>>]

_calculate_kelly(win_rate, win_loss_ratio) ==
    LET kelly == RSub(win_rate, RDiv(RSub(One, win_rate), win_loss_ratio))
    IN  RMax(Zero, RMin(kelly, One))

_calculate_from_history(self, trade_history) ==
    LET recent_trades == LastN(trade_history, self.lookback)
        HasPnl(trade) == "pnl" \in DOMAIN trade
        with_pnl == SelectSeq(recent_trades, HasPnl)
        pnls == [k \in 1..Len(with_pnl) |-> with_pnl[k].pnl]
        IsWin(pnl) == RLt(Zero, pnl)
        IsLoss(pnl) == RLt(pnl, Zero)
        wins == SelectSeq(pnls, IsWin)
        losing == SelectSeq(pnls, IsLoss)
        losses == [k \in 1..Len(losing) |-> RAbs(losing[k])]
    IN  IF pnls = <<>> THEN <<self.win_rate, self.win_loss_ratio>>
        ELSE LET win_rate == RDiv(Rat(Len(wins)), Rat(Len(pnls)))
                 win_loss_ratio ==
                     IF wins # <<>> /\ losses # <<>>
                     THEN LET avg_win == RDiv(RSum(wins), Rat(Len(wins)))
                              avg_loss == RDiv(RSum(losses), Rat(Len(losses)))
                          IN  IF RLt(Zero, avg_loss) THEN RDiv(avg_win, avg_loss)
                              ELSE self.win_loss_ratio
                     ELSE self.win_loss_ratio
             IN  <<win_rate, win_loss_ratio>>

\* The allocation fraction calculate_position_size applies; kwargs is the
\* dict of keyword arguments, a set of <<key, value>> pairs.
KellySizer_allocation_pct(self, kwargs) ==
    LET trade_history == Get(kwargs, "trade_history", self.historical_trades)
        estimate == IF Len(trade_history) >= self.lookback
                    THEN _calculate_from_history(self, trade_history)
                    ELSE <<self.win_rate, self.win_loss_ratio>>
        kelly_pct == _calculate_kelly(estimate[1], estimate[2])
    IN  RMax(RMin(RMul(kelly_pct, self.fraction), One), Zero)

KellySizer_calculate_position_size(self, capital, price, signal, kwargs) ==
    IF signal = 0 \/ RLe(price, Zero) THEN Zero
    ELSE LET allocation_pct == KellySizer_allocation_pct(self, kwargs)
             dollar_amount == RMul(capital, allocation_pct)
         IN  RDiv(dollar_amount, price)

KellySizer_update_trade_history(self, trade) ==
    IF "pnl" \in DOMAIN trade
    THEN [self EXCEPT !.historical_trades = Append(@, trade)]
    ELSE self

\* ------------------------------- specification of direct use of the sizers
\* The longest trade history a KellySizer accumulates.
MaxTrades == 2
Capitals == {Rat(10), Rat(100)}
SizerPrices == {Zero, Rat(1), Rat(2)}
\* None, a history shorter than the lookback, a flat one, and one whose
\* returns alternate between +1 and -1/2 (standard deviation 3/4).
PriceHistories ==
    {<<>>,
     <<Rat(1), Rat(2)>>,
     <<Rat(2), Rat(2), Rat(2), Rat(2), Rat(2)>>,
     <<Rat(1), Rat(2), Rat(1), Rat(2), Rat(1)>>}

FixedPositionSizerArgs == [percent : {<<1, 10>>, One, Rat(2)}]
KellyPositionSizerArgs ==
    [win_rate : {<<11, 20>>, <<3, 10>>, <<9, 10>>},
     win_loss_ratio : {<<3, 2>>, Rat(2)},
     kelly_fraction : {<<1, 4>>, One}]
VolatilityPositionSizerArgs ==
    [risk_per_trade : {<<1, 50>>, <<1, 2>>}, volatility_lookback : {1, 5}]
\* The arguments KellySizer's constructor accepts, out of a set that holds a
\* win rate it rejects.
KellySizerArgs ==
    {a \in [win_rate : {<<1, 2>>, <<9, 10>>, One},
            win_loss_ratio : {<<1, 2>>, Rat(2)},
            fraction : {<<1, 2>>, One},
            lookback : {2}] :
        KellySizerInit(a.win_rate, a.win_loss_ratio, a.fraction, a.lookback).raised = ""}
\* A winning, a losing and a break-even closed trade, and a record without
\* a 'pnl' key.
Trades == {[pnl |-> Rat(2)], [pnl |-> Rat(-1)], [pnl |-> Zero], [type |-> "ENTER"]}
\* The keyword arguments: none, or a trade_history shorter than the lookback
\* or two records long.
KellyKwargs ==
    LET Win == [pnl |-> Rat(2)]
        Loss == [pnl |-> Rat(-1)]
        Even == [pnl |-> Zero]
        Enter == [type |-> "ENTER"]
        TradeHistories == {<<Win>>, <<Win, Win>>, <<Win, Loss>>, <<Loss, Loss>>,
                           <<Even, Enter>>, <<Enter, Enter>>}
    IN  {NoData} \cup {{<<"trade_history", h>>} : h \in TradeHistories}

NoSizerCall ==
    [op |-> "", capital |-> Zero, price |-> Zero, signal |-> 0, price_history |-> <<>>]

InitSizer ==
    /\ engine \in {"FixedPositionSizer", "KellyPositionSizer", "VolatilityPositionSizer",
                   "KellySizer"}
    /\ \/ /\ engine = "FixedPositionSizer"
          /\ config \in FixedPositionSizerArgs
          /\ sizer = FixedPositionSizerInit(config.percent)
       \/ /\ engine = "KellyPositionSizer"
          /\ config \in KellyPositionSizerArgs
          /\ sizer = KellyPositionSizerInit(config.win_rate, config.win_loss_ratio,
                                            config.kelly_fraction)
       \/ /\ engine = "VolatilityPositionSizer"
          /\ config \in VolatilityPositionSizerArgs
          /\ sizer = VolatilityPositionSizerInit(config.risk_per_trade,
                                                 config.volatility_lookback)
       \/ /\ engine = "KellySizer"
          /\ config \in KellySizerArgs
          /\ sizer = KellySizerInit(config.win_rate, config.win_loss_ratio,
                                    config.fraction, config.lookback)
    /\ data = <<>>
    /\ signals = <<>>
    /\ i = 0
    /\ pc = "loop"
    /\ portfolio = None
    /\ sb = None
    /\ call = NoSizerCall
    /\ pre = sizer
    /\ results = NoResults
    /\ rm = None
    /\ ret = None

fixed_sizer_calculate_size ==
    /\ engine = "FixedPositionSizer"
    /\ \E capital \in Capitals, price \in SizerPrices, signal \in Signals :
        /\ ret' = Returned(FixedPositionSizer_calculate_size(sizer, capital, price, signal))
        /\ call' = [op |-> "calculate_size", capital |-> capital, price |-> price,
                    signal |-> signal, price_history |-> <<>>]
    /\ pre' = sizer
    /\ UNCHANGED <<rm, sizer, engine, data, signals, config, i, pc, portfolio, sb, results>>

kelly_sizer_calculate_size ==
    /\ engine = "KellyPositionSizer"
    /\ \E capital \in Capitals, price \in SizerPrices, signal \in Signals :
        /\ ret' = Returned(KellyPositionSizer_calculate_size(sizer, capital, price, signal))
        /\ call' = [op |-> "calculate_size", capital |-> capital, price |-> price,
                    signal |-> signal, price_history |-> <<>>]
    /\ pre' = sizer
    /\ UNCHANGED <<rm, sizer, engine, data, signals, config, i, pc, portfolio, sb, results>>

vol_sizer_calculate_size ==
    /\ engine = "VolatilityPositionSizer"
    /\ \E capital \in Capitals, price \in SizerPrices, signal \in Signals,
          price_history \in PriceHistories :
        /\ ret' = Returned(VolatilityPositionSizer_calculate_size(
                        sizer, capital, price, signal, price_history))
        /\ call' = [op |-> "calculate_size", capital |-> capital, price |-> price,
                    signal |-> signal, price_history |-> price_history]
    /\ pre' = sizer
    /\ UNCHANGED <<rm, sizer, engine, data, signals, config, i, pc, portfolio, sb, results>>

kelly_calculate_position_size ==
    /\ engine = "KellySizer"
    /\ \E capital \in Capitals, price \in SizerPrices, signal \in Signals,
          kwargs \in KellyKwargs :
        /\ ret' = Returned(KellySizer_calculate_position_size(
                        sizer, capital, price, signal, kwargs))
        /\ call' = [op |-> "calculate_position_size", capital |-> capital,
                    price |-> price, signal |-> signal, price_history |-> <<>>,
                    kwargs |-> kwargs]
    /\ pre' = sizer
    /\ UNCHANGED <<rm, sizer, engine, data, signals, config, i, pc, portfolio, sb, results>>

kelly_update_trade_history ==
    /\ engine = "KellySizer"
    /\ Len(sizer.historical_trades) < MaxTrades
    /\ \E trade \in Trades :
        /\ sizer' = KellySizer_update_trade_history(sizer, trade)
        /\ call' = [op |-> "update_trade_history", capital |-> Zero, price |-> Zero,
                    signal |-> 0, price_history |-> <<>>, trade |-> trade]
    /\ pre' = sizer
    /\ ret' = None
    /\ UNCHANGED <<rm, engine, data, signals, config, i, pc, portfolio, sb, results>>

NextSizer ==
    \/ fixed_sizer_calculate_size
    \/ kelly_sizer_calculate_size
    \/ vol_sizer_calculate_size
    \/ kelly_calculate_position_size
    \/ kelly_update_trade_history

SpecSizer == InitSizer /\ [][NextSizer]_vars

\* ------------- specification of SimpleBacktest runs with a position_sizer
\* run(strategy, position_sizer=...) with a sizer of each class of
\* simple_position_sizing; the position is a float from the start.
InitSized ==
    /\ engine = "SimpleBacktest"
    /\ data \in Series({Rat(1), Rat(2)})
    /\ signals \in [1..Len(data) -> Signals]
    /\ config \in [initial_capital : InitialCapitals, commission : Rates,
                   slippage : {Zero}, position_size : {One},
                   position_sizer : {"FixedPositionSizer", "KellyPositionSizer",
                                     "VolatilityPositionSizer"}]
    /\ sizer \in
        (IF config.position_sizer = "FixedPositionSizer"
         THEN {FixedPositionSizerInit(a.percent) : a \in FixedPositionSizerArgs}
         ELSE IF config.position_sizer = "KellyPositionSizer"
         THEN {KellyPositionSizerInit(a.win_rate, a.win_loss_ratio, a.kelly_fraction) :
                 a \in KellyPositionSizerArgs}
         ELSE {VolatilityPositionSizerInit(a.risk_per_trade, a.volatility_lookback) :
                 a \in VolatilityPositionSizerArgs})
    /\ i = 0
    /\ pc = "loop"
    /\ portfolio = None
    /\ sb = [SimpleInit(config.initial_capital) EXCEPT !.position = Zero]
    /\ call = NoCall
    /\ pre = sb
    /\ results = NoResults
    /\ rm = None
    /\ ret = None

SpecSized == InitSized /\ [][SimpleBacktest_run_loop \/ SimpleBacktest_run_return]_vars

\* ===================================== claims on the loop and on the sizers
\* What a SimpleRiskManager with the default percentages, engaged for a
\* position entered at entry_price, reports at `price`.
RiskReport(entry_price, position_type, price) ==
    LET manager == SimpleRiskManager_enter_position(
                       SimpleRiskManagerInit(<<1, 50>>, <<1, 25>>, <<1, 50>>, FALSE),
                       entry_price, position_type)
    IN  SimpleRiskManager_update_price(manager, price).ret

\* C19 (risk exit inside the simulation loop): on every bar after the first,
\* if the risk manager engaged for the open position reports a stop-loss,
\* take-profit or trailing-stop exit at that bar's price, the bar closes that
\* position (its first new trade record is the EXIT/CLOSE), whatever the
\* bar's signal.
RiskExitInLoop ==
    (pc = "loop" /\ i >= 2) =>
        /\ (engine = "BacktestEngine" /\ ~is_flat(pre.position)) =>
            LET report == RiskReport(pre.position.entry_price,
                                     IF is_long(pre.position) THEN 1 ELSE -1, data[i])
                new == NewRecords(pre.trades, portfolio.trades)
            IN  report[1] =>
                    (Len(new) >= 1 /\ new[1].type \in {"EXIT LONG", "EXIT SHORT"})
        /\ (engine = "SimpleBacktest" /\ pre.position # 0) =>
            LET report == RiskReport(pre.trades[Len(pre.trades)].price,
                                     Sign(pre.position), data[i])
                new == NewRecords(pre.trades, sb.trades)
            IN  report[1] => (Len(new) >= 1 /\ new[1].type = "CLOSE")

\* C20 (sizer sign): for every sizer, with capital > 0 and price > 0, the
\* quantity calculate_size returns has the sign of the signal.
SizerSign ==
    (/\ engine \in {"FixedPositionSizer", "KellyPositionSizer", "VolatilityPositionSizer"}
     /\ call.op = "calculate_size"
     /\ RLt(Zero, call.capital)
     /\ RLt(Zero, call.price)) =>
        RSign(ret.value) = call.signal

\* =============================================== claims on the Kelly sizers
\* C21 (Kelly bound): the quantity a Kelly sizer returns, times the price, is
\* never negative and never above the allocation ceiling times the capital:
\* one half of the capital in KellyPositionSizer, all of it in KellySizer,
\* whether KellySizer takes the win rate and the ratio from its constructor
\* or recomputes them from a trade history.
KellyBound ==
    /\ (engine = "KellyPositionSizer" /\ call.op = "calculate_size") =>
        /\ RLe(Zero, RMul(ret.value, call.price))
        /\ RLe(RMul(ret.value, call.price), RMul(call.capital, <<1, 2>>))
    /\ (engine = "KellySizer" /\ call.op = "calculate_position_size") =>
        /\ RLe(Zero, RMul(ret.value, call.price))
        /\ RLe(RMul(ret.value, call.price), call.capital)
        /\ RLe(Zero, KellySizer_allocation_pct(pre, call.kwargs))
        /\ RLe(KellySizer_allocation_pct(pre, call.kwargs), One)

\* C21 witness: a KellyPositionSizer whose fractional Kelly allocation (0.85)
\* is above the ceiling sizes a trade at exactly half of the capital.
KellyBoundWitness ==
    /\ engine = "KellyPositionSizer"
    /\ call.op = "calculate_size"
    /\ call.signal # 0
    /\ RLt(Zero, call.price)
    /\ sizer.win_rate = <<9, 10>>
    /\ sizer.kelly_fraction = One
    /\ RMul(ret.value, call.price) = RMul(call.capital, <<1, 2>>)

\* ================================================== claims on the ledger
\* The equity sample the curve holds for a time.
Sample(equity_curve, time) ==
    {equity_curve[k][2] : k \in {j \in 1..Len(equity_curve) : equity_curve[j][1] = time}}

\* C25 (mark is read-only on the ledger): Portfolio.update_price(price, time)
\* records the one equity sample current_capital + units x (price - entry
\* price) for `time`, sets current_price and current_time, and leaves the
\* position, current_capital and the trade log as they were.
MarkIsReadOnly ==
    (engine = "Portfolio" /\ call.op = "update_price") =>
        /\ Sample(portfolio.equity_curve, call.time) =
               {RAdd(pre.current_capital,
                     RMul(pre.position.units, RSub(call.price, pre.position.entry_price)))}
        /\ portfolio.current_price = call.price
        /\ portfolio.current_time = call.time
        /\ portfolio.position = pre.position
        /\ portfolio.current_capital = pre.current_capital
        /\ portfolio.trades = pre.trades

\* C25 witness: a mark of a short position at a price away from its entry.
MarkIsReadOnlyWitness ==
    /\ engine = "Portfolio"
    /\ call.op = "update_price"
    /\ is_short(pre.position)
    /\ call.price # pre.position.entry_price
    /\ portfolio.trades # <<>>

\* C24 (only transitions cause action): a signal of 0, or a non-zero signal
\* in the direction of the open position, leaves the position (units, entry
\* price, entry time), the cash and the trade log as they were, in
\* Portfolio.execute_signal and in a bar of SimpleBacktest.run.
OnlyTransitionsAct ==
    /\ (/\ engine \in {"Portfolio", "BacktestEngine"}
        /\ call.op = "execute_signal"
        /\ \/ call.signal = 0
           \/ call.signal = 1 /\ is_long(pre.position)
           \/ call.signal = -1 /\ is_short(pre.position)) =>
        /\ portfolio.position = pre.position
        /\ portfolio.current_capital = pre.current_capital
        /\ portfolio.trades = pre.trades
    /\ (/\ engine = "SimpleBacktest"
        /\ pc = "loop"
        /\ i > 0
        /\ \/ signals[i] = 0
           \/ signals[i] > 0 /\ pre.position > 0
           \/ signals[i] < 0 /\ pre.position < 0) =>
        /\ sb.position = pre.position
        /\ sb.capital = pre.capital
        /\ sb.trades = pre.trades

\* C24 witness: a buy signal executed on a Portfolio that is already long.
OnlyTransitionsActWitness ==
    /\ engine = "Portfolio"
    /\ call.op = "execute_signal"
    /\ call.signal = 1
    /\ is_long(pre.position)
    /\ portfolio.trades # <<>>

\* A bar of SimpleBacktest.run with a sell signal while short.
OnlyTransitionsActInRun ==
    /\ engine = "SimpleBacktest"
    /\ pc = "loop"
    /\ i > 1
    /\ signals[i] < 0
    /\ pre.position < 0

\* C30 (trade log shape): after any sequence of update_price and
\* execute_signal calls on a Portfolio, the records of the trade log alternate
\* ENTER, EXIT, ENTER, ... from an ENTER, every EXIT has the direction of the
\* ENTER before it, and the position is long (short) exactly when the last
\* record is an ENTER LONG (ENTER SHORT), and flat otherwise.
TradeLogShape ==
    engine = "Portfolio" =>
        LET trades == portfolio.trades
            last == trades[Len(trades)]
        IN  /\ \A k \in 1..Len(trades) :
                IF k % 2 = 1
                THEN trades[k].type \in {"ENTER LONG", "ENTER SHORT"}
                ELSE \/ trades[k].type = "EXIT LONG" /\ trades[k - 1].type = "ENTER LONG"
                     \/ trades[k].type = "EXIT SHORT" /\ trades[k - 1].type = "ENTER SHORT"
            /\ is_long(portfolio.position) <=>
                   (trades # <<>> /\ last.type = "ENTER LONG")
            /\ is_short(portfolio.position) <=>
                   (trades # <<>> /\ last.type = "ENTER SHORT")

\* =========================================== claims on the runs of strategies
\* BuyAndHoldStrategy.generate_signals: +1 on the first bar, 0 on the others.
BuyAndHold_generate_signals(bars) == [k \in 1..Len(bars) |-> IF k = 1 THEN 1 ELSE 0]

\* C29 (buy-and-hold buys and holds): in a run of BuyAndHoldStrategy over at
\* least two bars, the position is long after the second bar and after every
\* later one, the last included, in BacktestEngine.run and SimpleBacktest.run.
BuyAndHoldHolds ==
    (/\ engine \in {"BacktestEngine", "SimpleBacktest"}
     /\ signals = BuyAndHold_generate_signals(data)
     /\ pc = "loop"
     /\ i >= 2) =>
        IF engine = "BacktestEngine" THEN is_long(portfolio.position)
        ELSE sb.position > 0

\* The ledger of a Portfolio: position, cash, trade log and equity samples.
Ledger(pf) == <<pf.position, pf.current_capital, pf.trades, pf.equity_curve>>

\* The object run is called on, with the signal of bar k (1-based) set to 0.
SelfWithHold(k) ==
    [Self EXCEPT !.signals = [t \in (DOMAIN signals) \cup {k} |->
                                 IF t = k THEN 0 ELSE signals[t]]]

\* C27 (malformed signal is a hold): a bar whose signal is outside
\* {-1, 0, 1} leaves the position, the cash, the trade log and the equity
\* curve exactly as the same bar with signal 0 would, and the run does not
\* stop on it.
MalformedSignalIsHold ==
    (/\ engine \in {"BacktestEngine", "SimpleBacktest"}
     /\ pc = "loop"
     /\ i > 0
     /\ i \in DOMAIN signals
     /\ signals[i] \notin {-1, 0, 1}) =>
        IF engine = "BacktestEngine"
        THEN Ledger(portfolio) =
                 Ledger(BacktestEngine_bar(SelfWithHold(i), pre, i - 1).portfolio)
        ELSE sb = SimpleBacktest_bar(SelfWithHold(i), pre, i - 1)

\* C28 (missing signal is a hold): a bar whose timestamp the signals do not
\* hold is processed as a bar with signal 0, and the run goes on to the last
\* bar, in BacktestEngine.run and in SimpleBacktest.run.
MissingSignalIsHold ==
    engine \in {"BacktestEngine", "SimpleBacktest"} =>
        /\ pc = "done" => i = Len(data)
        /\ (pc = "loop" /\ i > 0 /\ i \notin DOMAIN signals) =>
              IF engine = "BacktestEngine"
              THEN Ledger(portfolio) =
                       Ledger(BacktestEngine_bar(SelfWithHold(i), pre, i - 1).portfolio)
              ELSE sb = SimpleBacktest_bar(SelfWithHold(i), pre, i - 1)

\* ================================================== claims on the metrics
\* The largest fractional decline of a curve from a peak to a later sample.
LargestDecline(equity) ==
    LET pairs == {p \in (1..Len(equity)) \X (1..Len(equity)) :
                     p[1] <= p[2] /\ RLt(Zero, equity[p[1]])}
        declines == {RDiv(RSub(equity[p[1]], equity[p[2]]), equity[p[1]]) : p \in pairs}
    IN  CHOOSE d \in declines : \A e \in declines : RLe(e, d)

\* a <= b on floats; False when either is NaN.
FLe(a, b) == ~IsNaN(a) /\ ~IsNaN(b) /\ ~FLt(b, a)

\* C22 (drawdown bounds): for every equity curve of at least two samples,
\* the max_drawdown that calculate_metrics and
\* SimpleBacktest._calculate_metrics report is a number in [0, 1] and is the
\* largest peak-to-trough fractional decline of the curve.
DrawdownBounds ==
    (/\ engine \in {"calculate_metrics", "_calculate_metrics"}
     /\ pc = "done"
     /\ engine = "calculate_metrics" => ret.raised = "") =>
        /\ FLe(Zero, ret.max_drawdown)
        /\ FLe(ret.max_drawdown, One)
        /\ ret.max_drawdown = LargestDecline(call.equity_curve)

\* The EXIT records of a log.
IsExit(trade) == "pnl" \in DOMAIN trade
ExitPnlsOf(trades) ==
    LET exits == SelectSeq(trades, IsExit)
    IN  [k \in 1..Len(exits) |-> exits[k].pnl]

\* C23 (trade statistics count round trips only): for a log of k >= 1
\* ENTER/EXIT pairs whose EXIT records all have a positive pnl,
\* calculate_metrics returns win_rate 1, number_of_trades k and avg_win the
\* mean of the k exit pnls.
RoundTripStatistics ==
    (/\ engine = "calculate_metrics"
     /\ pc = "done"
     /\ \E k \in 1..MaxPairs : call.trades \in PairLogs(k)
     /\ \A k \in 1..Len(call.trades) :
            IsExit(call.trades[k]) => RLt(Zero, call.trades[k].pnl)) =>
        LET pnls == ExitPnlsOf(call.trades)
        IN  /\ ret.raised = ""
            /\ ret.win_rate = One
            /\ ret.number_of_trades = Len(pnls)
            /\ ret.avg_win = RDiv(RSum(pnls), Rat(Len(pnls)))

\* =============================================== claims on the comparison
\* C26 (comparison covers exactly the strategies passed): the table
\* BacktestEngine.compare_strategies(strategies) returns has len(strategies)
\* rows, and every strategy passed in has a row labelled with its name that
\* holds the metrics of a run of that strategy on a fresh engine, whatever
\* was run on the engine before.
ComparisonCoversPassed ==
    (/\ engine = "BacktestEngine"
     /\ call.op = "compare_strategies"
     /\ ret.raised = "") =>
        /\ Len(ret.value) = Len(call.strategies)
        /\ \A k \in 1..Len(call.strategies) :
               \E row \in 1..Len(ret.value) :
                   /\ ret.value[row][1] = call.strategies[k].name
                   /\ ret.value[row][2] =
                          BacktestEngine_run_strategy(Self, <<>>, call.strategies[k]).value.metrics

\* ==================================================== claims on the ledger
\* The capital after the first k records of the log.
CapitalAfter(pf, k) == IF k = 0 THEN pf.initial_capital ELSE pf.trades[k].capital

\* C31 (ledger conservation): in every reachable Portfolio state
\* current_capital is initial_capital plus the pnl of all EXIT records logged
\* so far; an ENTER record leaves the capital as it was; the pnl of an EXIT
\* record is units x (exit price - entry price) for a long and
\* units x (entry price - exit price) for a short, so that closing a long above
\* its entry, or a short below it, increases current_capital.
LedgerConservation ==
    engine \in {"Portfolio", "BacktestEngine"} =>
        LET trades == portfolio.trades
        IN  /\ portfolio.current_capital =
                   RAdd(portfolio.initial_capital, RSum(ExitPnlsOf(trades)))
            /\ portfolio.current_capital = CapitalAfter(portfolio, Len(trades))
            /\ \A k \in 1..Len(trades) :
                   IF IsExit(trades[k])
                   THEN /\ k > 1
                        /\ ~IsExit(trades[k - 1])
                        /\ trades[k].pnl =
                               (IF trades[k].type = "EXIT LONG"
                                THEN RMul(trades[k].units,
                                          RSub(trades[k].price, trades[k - 1].price))
                                ELSE RMul(trades[k].units,
                                          RSub(trades[k - 1].price, trades[k].price)))
                        /\ trades[k].capital =
                               RAdd(CapitalAfter(portfolio, k - 1), trades[k].pnl)
                        /\ (\/ /\ trades[k].type = "EXIT LONG"
                                /\ RLt(trades[k - 1].price, trades[k].price)
                             \/ /\ trades[k].type = "EXIT SHORT"
                                /\ RLt(trades[k].price, trades[k - 1].price)) =>
                               RLt(CapitalAfter(portfolio, k - 1), trades[k].capital)
                   ELSE trades[k].capital = CapitalAfter(portfolio, k - 1)

\* C31 witness: a long closed above its entry and a short closed below its
\* entry in one log, with a position entered after them.
LedgerConservationWitness ==
    /\ engine \in {"Portfolio", "BacktestEngine"}
    /\ \E j, k \in 2..Len(portfolio.trades) :
           /\ IsExit(portfolio.trades[j])
           /\ portfolio.trades[j].type = "EXIT LONG"
           /\ RLt(portfolio.trades[j - 1].price, portfolio.trades[j].price)
           /\ IsExit(portfolio.trades[k])
           /\ portfolio.trades[k].type = "EXIT SHORT"
           /\ RLt(portfolio.trades[k].price, portfolio.trades[k - 1].price)
    /\ ~IsExit(portfolio.trades[Len(portfolio.trades)])
    /\ portfolio.current_capital # portfolio.initial_capital

\* ============================================ claims on the trailing exits
\* C32 (trailing exits are reported as trailing exits): with use_trailing, an
\* update_price on a long whose stop a favorable move has tightened beyond
\* its initial level, at a price that has fallen back to that tightened stop
\* (mirrored for a short), returns (True, TRAILING_STOP).
TrailingExitReported ==
    (/\ engine = "SimpleRiskManager"
     /\ call.op = "update_price"
     /\ pre.use_trailing
     /\ pre.position_type # 0
     /\ LET initial == PercentLevel(pre.entry_price, pre.position_type, pre.stop_loss_pct)
        IN  IF pre.position_type = 1
            THEN /\ RLt(initial, pre.stop_price)
                 /\ RLe(call.price, pre.stop_price)
                 /\ RLt(initial, call.price)
            ELSE /\ RLt(pre.stop_price, initial)
                 /\ RLe(pre.stop_price, call.price)
                 /\ RLt(call.price, initial)) =>
        ret.value = <<TRUE, "trailing_stop">>

\* ================================================= claims on whole runs
\* C33 (a run always completes): BacktestEngine.run returns its result
\* (equity curve, trades, metrics) without raising, for every signal sequence
\* over {-1, 0, 1} on a non-empty bar series, whether the run ends flat or with
\* a position open and whether the trade log is empty, holds ENTER records
\* only, or holds EXIT records.
RunCompletes ==
    (/\ engine = "BacktestEngine"
     /\ pc = "done"
     /\ Len(data) > 0
     /\ DOMAIN signals = 1..Len(data)
     /\ \A k \in 1..Len(data) : signals[k] \in {-1, 0, 1}) =>
        /\ results.raised = ""
        /\ {"equity_curve", "trades", "metrics"} \subseteq DOMAIN results

\* C34 (no overspending on entry): in SimpleBacktest.run without a
\* position_sizer and with position_size <= 1, opening a long never costs more
\* than the available cash: the cash is >= 0 after every long OPEN, for all
\* commission and slippage rates in [0, 1) and all positive prices.
NoOverspending ==
    (/\ engine = "SimpleBacktest"
     /\ RLe(config.position_size, One)
     /\ RLe(Zero, config.commission) /\ RLt(config.commission, One)
     /\ RLe(Zero, config.slippage) /\ RLt(config.slippage, One)) =>
        \A k \in 1..Len(sb.trades) :
            (sb.trades[k].type = "OPEN" /\ sb.trades[k].shares > 0) =>
                RLe(Zero, sb.trades[k].capital)

\* ================================================ claims on the sizing
\* C36 (no leverage from sizing): for the fixed, the Kelly and the volatility
\* sizer, with capital > 0, price > 0 and signal != 0, the notional of the
\* returned quantity does not exceed the capital: |quantity| x price <=
\* capital, for all clamped constructor arguments and any or no price history.
NoLeverage ==
    (/\ engine \in {"FixedPositionSizer", "KellyPositionSizer", "VolatilityPositionSizer"}
     /\ call.op = "calculate_size"
     /\ RLt(Zero, call.capital)
     /\ RLt(Zero, call.price)
     /\ call.signal # 0) =>
        RLe(RMul(RAbs(ret.value), call.price), call.capital)

\* C37 (trailing exit only after activation): on_price_update returns
\* TRAILING_STOP only if, since the last on_enter_position, some price reached
\* the activation threshold entry x (1 + activation_percent) of a long
\* (entry x (1 - activation_percent) of a short); an update on an activated
\* trailing stop leaves it active, and for the percent and fixed types moves
\* its stop level in the tightening direction only.
TrailingAfterActivation ==
    (/\ engine = "RiskManager"
     /\ call.op = "on_price_update"
     /\ pre.position_type # 0) =>
        /\ (ret.raised = "" /\ ret.value = <<TRUE, "trailing_stop">>) => data # <<>>
        /\ pre.trailing_stop.is_active =>
            /\ rm.trailing_stop.is_active
            /\ pre.trailing_stop.stop_type \in {"percent", "fixed"} =>
                IF pre.position_type = 1
                THEN RLe(pre.trailing_stop.current_stop_price,
                         rm.trailing_stop.current_stop_price)
                ELSE RLe(rm.trailing_stop.current_stop_price,
                         pre.trailing_stop.current_stop_price)

\* C35 (direction with a pluggable sizer): in SimpleBacktest.run with a
\* position_sizer (FixedPositionSizer, KellyPositionSizer or
\* VolatilityPositionSizer), a -1 signal on a flat bar after the first opens a
\* short position (negative shares) and a +1 signal a long one, as without a
\* sizer.
DirectionWithSizer ==
    (/\ engine = "SimpleBacktest"
     /\ "position_sizer" \in DOMAIN config
     /\ i > 1
     /\ pc = "loop"
     /\ RSign(pre.position) = 0
     /\ signals[i] # 0) =>
        /\ Len(sb.trades) = Len(pre.trades) + 1
        /\ sb.trades[Len(sb.trades)].type = "OPEN"
        /\ RSign(sb.trades[Len(sb.trades)].shares) = signals[i]
        /\ RSign(sb.position) = signals[i]

====
